---- MODULE Spec2Model ----
(***************************************************************************)
(* A model of lackey's RegionMatching.py: the Region search operations     *)
(* (find, findAll, wait, waitVanish, exists), their polling loops and the  *)
(* FindFailed protocol (_raiseFindFailed, handler, response).              *)
(*                                                                         *)
(* Time is the reading of time.time() in ticks, relative to the start of   *)
(* the current top-level call (the code uses only differences of clock     *)
(* readings).  A capture-and-match takes 0..MaxCaptureTicks ticks and      *)
(* time.sleep(1/rate) takes TicksPerSecond \div rate >= 1 ticks.           *)
(***************************************************************************)
EXTENDS Integers, Sequences, FiniteSets, TLC

\* ------------------------------------------------------------------ bounds
\* The x coordinate a region is moved to, away from the origin.
MaxX == 3
\* Width of every monitor of the layout.
ScreenW == 2
\* Largest timeout (autoWaitTimeout, or a call's seconds argument), in seconds.
MaxTimeout == 0
\* Largest scan rate (searches per second) setWaitScanRate is given.
MaxScanRate == 1
\* Longest capture-and-match, in ticks.
MaxCaptureTicks == 1
\* Cap of the number of exists searches inside one find or wait call.
MaxSearches == 2
\* Most matches findAllMatches reports for one capture.
MaxMatches == 1
\* Most differing pixels of a comparison, and largest min_changed_pixels.
MaxChanged == 1
\* Largest y, width and height of a region of the geometry operations, and
\* the largest distance passed to them.
MaxY == 1
MaxW == 3
MaxH == 2
MaxExpand == 1
\* Largest number of rows or columns given to setRaster, largest row or
\* column index asked for, and largest raster digit of get(part).
MaxRaster == 2
MaxIndex == 3
MaxN == 5
\* The similarity 1.0 in the steps similarities are counted in, and the
\* largest target offset.
SimSteps == 2
MaxOffset == 1
\* Most watchers registered, longest observe in sleeps of the loop, most
\* check cycles of one observe.
MaxEvents == 2
MaxObserve == 1
MaxChecks == 2

\* ------------------------------------------------------------- the values
\* Python's None for an optional number: << >>, and <<n>> for the number n.
None == << >>

Some(n) == <<n>>

\* Region.ABORT, SKIP, PROMPT, RETRY
Responses == {"ABORT", "SKIP", "PROMPT", "RETRY"}

\* The callables setFindFailedHandler is given, by what they do with the
\* FindFailedEvent: "keeps" returns without touching it, "sets" calls
\* event.setResponse(r) for some r of Responses.
Handlers == {"keeps", "sets"}

NoHandler == "None"

\* The rate setWaitScanRate stores when it is given 0.
DefaultScanRate == 3

\* Settings.WaitScanRate, the process-wide scan rate.
SettingsWaitScanRate == DefaultScanRate

\* Region.autoWaitTimeout of a new Region, in seconds.
DefaultAutoWaitTimeout == 3

Timeouts == 0 .. MaxTimeout

\* The buttons of the prompt (tkmb.ABORTRETRYIGNORE).
Buttons == {"abort", "retry", "ignore"}

Max(a, b) == IF a >= b THEN a ELSE b

Min(a, b) == IF a <= b THEN a ELSE b

\* Clock ticks per second: enough for every sleep to last at least one tick.
TicksPerSecond == Max(DefaultScanRate, MaxScanRate)

Rect(x, y, w, h) == [x |-> x, y |-> y, w |-> w, h |-> h]

\* PlatformManager.getScreenDetails(): the "rect" of each monitor, in order.
OneScreen == << Rect(0, 0, ScreenW, 1) >>

TwoScreens == << Rect(0, 0, ScreenW, 1), Rect(ScreenW, 0, ScreenW, 1) >>

Layouts == {OneScreen, TwoScreens}

\* ------------------------------------------------------- pure functions
\* The test of isRegionValid and clipRegionToScreen for "region completely
\* outside screen".
Outside(r, s) ==
    \/ r.x + r.w < s.x
    \/ s.x + s.w < r.x
    \/ r.y + r.h < s.y
    \/ s.y + s.h < r.y

\* The test of clipRegionToScreen for "region completely inside screen".
Inside(r, s) ==
    /\ r.x >= s.x
    /\ r.x + r.w <= s.x + s.w
    /\ r.y >= s.y
    /\ r.y + r.h <= s.y + s.h

\* Region.isRegionValid: the loop returns in its first iteration, so only
\* the first screen decides; with no screen it returns None (falsy).
isRegionValid(r, scr) ==
    IF Len(scr) = 0 THEN FALSE ELSE ~Outside(r, scr[1])

\* A clip that takes the width for the height and the height for the width.
RECURSIVE clipFrom_swapped(_, _, _)
clipFrom_swapped(r, scr, i) ==
    IF i > Len(scr) THEN None
    ELSE IF Inside(r, scr[i]) THEN Some(r)
    ELSE IF Outside(r, scr[i]) THEN clipFrom_swapped(r, scr, i + 1)
    ELSE Some(Rect(Max(r.x, scr[i].x), Max(r.y, scr[i].y),
                   Min(r.h, scr[i].h), Min(r.w, scr[i].w)))

\* The loop of clipRegionToScreen from screen i on.
RECURSIVE clipFrom(_, _, _)
clipFrom(r, scr, i) ==
    IF i > Len(scr) THEN None
    ELSE IF Inside(r, scr[i]) THEN Some(r)
    ELSE IF Outside(r, scr[i]) THEN clipFrom(r, scr, i + 1)
    ELSE Some(Rect(Max(r.x, scr[i].x), Max(r.y, scr[i].y),
                   Min(r.w, scr[i].w), Min(r.h, scr[i].h)))

\* Region.clipRegionToScreen: None, or Some(rect of the region returned).
clipRegionToScreen(r, scr) ==
    IF ~isRegionValid(r, scr) THEN None ELSE clipFrom(r, scr, 1)

\* Region.setWaitScanRate: the rate stored for the argument.
storedScanRate(s) == IF s = 0 THEN DefaultScanRate ELSE s

\* Region.getWaitScanRate, the rate the polling loops sleep by.
getWaitScanRate(dsr) == IF dsr # None THEN dsr[1] ELSE SettingsWaitScanRate

\* A sleep that does not advance the clock (1/rate as an integer division).
SleepTicks_zero(dsr) == 0

\* time.sleep(1/rate) of the polling loops, in ticks.
SleepTicks(dsr) == TicksPerSecond \div getWaitScanRate(dsr)

\* FindFailedEvent.setResponse, called as event.setResponse(response) on an
\* event whose _response is ev: the method is declared without self, so the
\* call passes two arguments to a function of one and raises TypeError; the
\* event keeps its response.
setResponse(ev, response) ==
    [raised |-> "TypeError", response |-> ev]

\* The handler called with a fresh event (_response None): what it raises
\* and the event's _response after it.
callHandler(handler, arg) ==
    IF handler = "sets" THEN setResponse("None", arg)
    ELSE [raised |-> "None", response |-> "None"]

\* Line 1284, response = _findFailedPrompt(pattern): the name is a method of
\* Region and no global, so the call raises NameError before any prompt.
callFindFailedPrompt(choice) ==
    [raised |-> "NameError", response |-> "PROMPT", asked |-> 0]

\* ABORT resolved without raising.
resolveResponse_abortReturns(response) ==
    CASE response = "RETRY" -> [raised |-> "None", retry |-> TRUE]
      [] OTHER              -> [raised |-> "None", retry |-> FALSE]

\* SKIP resolved as ABORT.
resolveResponse_skipRaises(response) ==
    CASE response = "ABORT" -> [raised |-> "FindFailed", retry |-> FALSE]
      [] response = "SKIP"  -> [raised |-> "FindFailed", retry |-> FALSE]
      [] response = "RETRY" -> [raised |-> "None", retry |-> TRUE]
      [] OTHER              -> [raised |-> "None", retry |-> FALSE]

\* RETRY resolved as SKIP.
resolveResponse_retryReturns(response) ==
    CASE response = "ABORT" -> [raised |-> "FindFailed", retry |-> FALSE]
      [] OTHER              -> [raised |-> "None", retry |-> FALSE]

\* The last lines of _raiseFindFailed: what the response resolves to.
resolveResponse(response) ==
    CASE response = "ABORT" -> [raised |-> "FindFailed", retry |-> FALSE]
      [] response = "SKIP"  -> [raised |-> "None", retry |-> FALSE]
      [] response = "RETRY" -> [raised |-> "None", retry |-> TRUE]
      [] OTHER              -> [raised |-> "None", retry |-> FALSE]

\* Region._raiseFindFailed for a region with the given handler and
\* configured response; arg is what the handler gives setResponse and
\* choice the button the prompt would return.
raiseFindFailed(handler, configured, arg, choice) ==
    LET h == IF handler # NoHandler THEN callHandler(handler, arg)
             ELSE [raised |-> "None", response |-> "None"]
        calls == IF handler # NoHandler THEN 1 ELSE 0
        set == IF handler = "sets" THEN arg ELSE "None"
        response == IF h.response # "None" THEN h.response ELSE configured
        p == IF response = "PROMPT" THEN callFindFailedPrompt(choice)
             ELSE [raised |-> "None", response |-> response, asked |-> 0]
        r == resolveResponse(p.response)
    IN  IF h.raised # "None"
        THEN [raised |-> h.raised, retry |-> FALSE, handlerCalls |-> calls,
              handlerSet |-> set, promptCalls |-> 0]
        ELSE IF p.raised # "None"
        THEN [raised |-> p.raised, retry |-> FALSE, handlerCalls |-> calls,
              handlerSet |-> set, promptCalls |-> p.asked]
        ELSE [raised |-> r.raised, retry |-> r.retry, handlerCalls |-> calls,
              handlerSet |-> set, promptCalls |-> p.asked]

\* Line 481 of wait, findFailedRetry = _raiseFindFailed(...): the name is a
\* method of Region and no global, so the call raises NameError; neither
\* the handler nor the response is consulted.
wait_raiseFindFailed(handler, configured, arg, choice) ==
    [raised |-> "NameError", retry |-> FALSE, handlerCalls |-> 0,
     handlerSet |-> "None", promptCalls |-> 0]

VARIABLES
    screens,              \* PlatformManager.getScreenDetails()
    rect,                 \* Region.x, y, w, h
    autoWaitTimeout,      \* Region.autoWaitTimeout, in seconds
    defaultScanRate,      \* Region._defaultScanRate: None or Some(rate)
    findFailedResponse,   \* Region._findFailedResponse
    findFailedHandler,    \* Region._findFailedHandler
    lastMatch,            \* Region._lastMatch: "None" or "Match"
    lastMatches,          \* Region._lastMatches: the number of matches in it
    op,                   \* the public operation running, or "idle"
    pc,                   \* its position
    seconds,              \* its seconds argument: None or Some(n)
    now,                  \* time.time()
    timeout,              \* the local timeout of the polling loop running
    waitTimeout,          \* wait's local timeout
    match,                \* the local match of the polling loop
    matches,              \* findAll's local matches: how many there are
    result,               \* what the operation returned or raised
    attempts,             \* captures of the polling loop running
    searches,             \* exists searches begun by the operation
    exhausted,            \* exists searches that came back with None
    handlerCalls,         \* invocations of the FindFailed handler
    handlerSet,           \* the response the handler gave to setResponse
    promptCalls,          \* invocations of the prompt (tkmb.showerror)
    raster,               \* Region._raster: <<rows, columns>>
    out,                  \* what the last geometry operation returned
    pattern,              \* the Pattern in the caller's hand
    events,               \* Observer._events, in the order registered
    caught_events,        \* Observer.caught_events
    isStopped,            \* Observer.isStopped
    isRunning,            \* Observer.isRunning
    obsPc,                \* where Region.observe stands
    obsI,                 \* the place in _events check_events has come to
    obsNow,               \* sleeps of the loop since observe began
    obsTimeout,           \* observe's local timeout, None without seconds
    onScreen,             \* the pattern is on the screen at this moment
    checks,               \* check_events calls begun by this observe
    stoppedIn,            \* the check cycle in which a handler asked to stop
    reentered,            \* what observe returned to a handler calling it
    background,           \* observeInBackground() has started a process
    worker,               \* the Observer of that process and where it stands
    observeEvent,         \* the ObserveEvent in the caller's hand
    throwException,       \* Region._throwException
    lastMatchTime,        \* Region._lastMatchTime, in ticks
    keysDown,             \* the modifier keys held down on the keyboard
    buttonDown,           \* the left mouse button is held down
    dragPc                \* where Region.dragDrop stands

cfgVars == <<screens, rect, autoWaitTimeout, defaultScanRate,
             findFailedResponse, findFailedHandler>>

memVars == <<lastMatch, lastMatches>>

callVars == <<op, pc, seconds, now, timeout, waitTimeout, match, matches,
              result>>

ghostVars == <<attempts, searches, exhausted, handlerCalls, handlerSet,
               promptCalls>>

geoVars == <<raster, out>>

patVars == <<pattern>>

\* The state of the classes other than Region.
obsVars == <<events, caught_events, isStopped, isRunning, obsPc, obsI,
             obsNow, obsTimeout, onScreen, checks, stoppedIn,
             reentered, background>>

\* The background process, the event and flag objects, and the devices.
restVars == <<worker, observeEvent, throwException, lastMatchTime, keysDown,
              buttonDown, dragPc>>

extVars == <<patVars, obsVars, restVars>>

vars == <<cfgVars, memVars, callVars, ghostVars, geoVars, extVars>>

\* Pattern.__init__ with the file found, while Settings.MinSimilarity is m.
NewPattern(path, m) == [path |-> path, similarity |-> m, offset |-> <<0, 0>>]

\* Observer.__init__, and the bookkeeping of observe not yet called.
ObsInit ==
    /\ events = << >>
    /\ caught_events = << >>
    /\ isStopped = FALSE
    /\ isRunning = FALSE
    /\ obsPc = "idle"
    /\ obsI = 0
    /\ obsNow = 0
    /\ obsTimeout = None
    /\ onScreen = FALSE
    /\ checks = 0
    /\ stoppedIn = 0
    /\ reentered = "none"
    /\ background = FALSE

\* No process has been started by observeInBackground.
NoWorker ==
    [pc |-> "none", events |-> << >>, caught_events |-> << >>,
     isStopped |-> FALSE, obsI |-> 0, obsNow |-> 0, obsTimeout |-> None]

\* ObserveEvent.__init__(region, count, pattern, match, event_type); pattern
\* and match are None or Some(x).
\* No dragDrop is under way.
NoDrag ==
    [pc |-> "idle", dragFrom |-> "None", dragTo |-> "None", modifiers |-> "",
     button |-> FALSE]

NewObserveEvent(count, pat, m, event_type) ==
    [type |-> event_type, pattern |-> pat, match |-> m, count |-> count]

\* The rest of Region.__init__, an ObserveEvent(region) and the devices
\* with nothing pressed.
RestInit ==
    /\ worker = NoWorker
    /\ observeEvent = NewObserveEvent(0, None, None, "GENERIC")
    /\ throwException = TRUE
    /\ lastMatchTime = 0
    /\ keysDown = ""
    /\ buttonDown = FALSE
    /\ dragPc = NoDrag

\* The classes other than Region before anything was done with them.
ExtInit == pattern = NewPattern("a.png", SimSteps) /\ ObsInit /\ RestInit

\* No geometry operation has been called yet.
NoOut ==
    [op |-> "none", kind |-> "none", res |-> None, derived |-> None,
     args |-> << >>]

\* ------------------------------------------------------------------ Init
\* A new Region(0, 0, 1, 1) (Region.__init__) on one of the layouts.
Init ==
    /\ screens \in Layouts
    /\ rect = Rect(0, 0, 1, 1)
    /\ autoWaitTimeout = DefaultAutoWaitTimeout
    /\ defaultScanRate = None
    /\ findFailedResponse = "ABORT"
    /\ findFailedHandler = NoHandler
    /\ lastMatch = "None"
    /\ lastMatches = 0
    /\ op = "idle"
    /\ pc = "idle"
    /\ seconds = None
    /\ now = 0
    /\ timeout = 0
    /\ waitTimeout = 0
    /\ match = "None"
    /\ matches = 0
    /\ result = "none"
    /\ attempts = 0
    /\ searches = 0
    /\ exhausted = 0
    /\ handlerCalls = 0
    /\ handlerSet = "None"
    /\ promptCalls = 0
    /\ raster = <<0, 0>>
    /\ out = NoOut
    /\ ExtInit

Idle == op = "idle"

\* ---------------------------------------------------------- configuration
setX(x) ==
    /\ Idle
    /\ rect' = [rect EXCEPT !.x = x]
    /\ UNCHANGED <<screens, autoWaitTimeout, defaultScanRate,
                   findFailedResponse, findFailedHandler>>
    /\ UNCHANGED <<memVars, callVars, ghostVars>>
    /\ UNCHANGED geoVars
    /\ UNCHANGED extVars

setAutoWaitTimeout(s) ==
    /\ Idle
    /\ autoWaitTimeout' = s
    /\ UNCHANGED <<screens, rect, defaultScanRate, findFailedResponse,
                   findFailedHandler>>
    /\ UNCHANGED <<memVars, callVars, ghostVars>>
    /\ UNCHANGED geoVars
    /\ UNCHANGED extVars

setWaitScanRate(s) ==
    /\ Idle
    /\ defaultScanRate' = Some(storedScanRate(s))
    /\ UNCHANGED <<screens, rect, autoWaitTimeout, findFailedResponse,
                   findFailedHandler>>
    /\ UNCHANGED <<memVars, callVars, ghostVars>>
    /\ UNCHANGED geoVars
    /\ UNCHANGED extVars

setFindFailedResponse(response) ==
    /\ Idle
    /\ response \in Responses
    /\ findFailedResponse' = response
    /\ UNCHANGED <<screens, rect, autoWaitTimeout, defaultScanRate,
                   findFailedHandler>>
    /\ UNCHANGED <<memVars, callVars, ghostVars>>
    /\ UNCHANGED geoVars
    /\ UNCHANGED extVars

setFindFailedHandler(handler) ==
    /\ Idle
    /\ findFailedHandler' = handler
    /\ UNCHANGED <<screens, rect, autoWaitTimeout, defaultScanRate,
                   findFailedResponse>>
    /\ UNCHANGED <<memVars, callVars, ghostVars>>
    /\ UNCHANGED geoVars
    /\ UNCHANGED extVars

\* ------------------------------------------------------- the calls begin
\* A public operation is called: its locals and the counters start afresh.
Begin(o, s, p) ==
    /\ Idle
    /\ op' = o
    /\ pc' = p
    /\ seconds' = s
    /\ now' = 0
    /\ timeout' = 0
    /\ match' = "None"
    /\ matches' = 0
    /\ result' = "none"
    /\ attempts' = 0
    /\ searches' = 0
    /\ exhausted' = 0
    /\ handlerCalls' = 0
    /\ handlerSet' = "None"
    /\ promptCalls' = 0
    /\ UNCHANGED <<cfgVars, memVars>>
    /\ UNCHANGED geoVars
    /\ UNCHANGED extVars

\* Region.find(pattern): line 400, then the first exists.
find ==
    /\ Begin("find", None, "exists")
    /\ waitTimeout' = 0

\* Region.wait(pattern, seconds): lines 468-472.
wait(s) ==
    /\ Begin("wait", s, "exists")
    /\ waitTimeout' = (IF s = None THEN autoWaitTimeout ELSE s[1])
                      * TicksPerSecond

\* Region.exists(pattern, seconds).
exists(s) ==
    /\ Begin("exists", s, "exists")
    /\ waitTimeout' = 0

\* Region.waitVanish(pattern, seconds).
waitVanish(s) ==
    /\ Begin("waitVanish", s, "waitVanish")
    /\ waitTimeout' = 0

\* Region.findAll(pattern).
findAll ==
    /\ Begin("findAll", None, "findAll")
    /\ waitTimeout' = 0

\* Region.isChanged(min_changed_pixels, screen_state).
isChanged ==
    /\ Begin("isChanged", None, "isChanged")
    /\ waitTimeout' = 0

\* ---------------------------------------------------------------- exists
\* The operation ends: it returned or raised r.
Finish(r) ==
    /\ pc' = "done"
    /\ result' = r

\* The seconds of the exists running: find and wait call exists(pattern).
existsSeconds ==
    IF op = "exists" /\ seconds # None THEN seconds[1] ELSE autoWaitTimeout

\* Lines 518-540 of exists: the clip, the default timeout, the deadline.
exists_enter ==
    /\ pc = "exists"
    /\ searches < MaxSearches
    /\ IF clipRegionToScreen(rect, screens) = None
       THEN /\ Finish("ValueError")
            /\ UNCHANGED <<timeout, match, attempts, searches>>
       ELSE /\ pc' = "exists_loop"
            /\ match' = "None"
            /\ timeout' = now + existsSeconds * TicksPerSecond
            /\ attempts' = 0
            /\ searches' = searches + 1
            /\ UNCHANGED result
    /\ UNCHANGED <<op, seconds, now, waitTimeout, matches>>
    /\ UNCHANGED <<cfgVars, memVars>>
    /\ UNCHANGED <<exhausted, handlerCalls, handlerSet, promptCalls>>
    /\ UNCHANGED geoVars
    /\ UNCHANGED extVars

\* Lines 543-548: one pass of the loop, a capture and match (found or not,
\* taking c ticks), the sleep, then the deadline and the loop condition.
exists_poll(found, c) ==
    /\ pc = "exists_loop"
    /\ match' = (IF found THEN "Match" ELSE "None")
    /\ now' = now + c + SleepTicks(defaultScanRate)
    /\ attempts' = attempts + 1
    /\ pc' = (IF now' > timeout \/ found THEN "exists_end" ELSE "exists_loop")
    /\ UNCHANGED <<op, seconds, timeout, waitTimeout, matches, result>>
    /\ UNCHANGED <<cfgVars, memVars>>
    /\ UNCHANGED <<searches, exhausted, handlerCalls, handlerSet, promptCalls>>
    /\ UNCHANGED geoVars
    /\ UNCHANGED extVars

\* Lines 550-570: exists returns None or the Match it stored in _lastMatch;
\* then its caller goes on: find at line 403, wait at line 476.
exists_return ==
    /\ pc = "exists_end"
    /\ IF match = "None"
       THEN /\ exhausted' = exhausted + 1
            /\ UNCHANGED lastMatch
            /\ CASE op = "find" ->
                      /\ pc' = "find_failed"
                      /\ UNCHANGED result
                 [] op = "wait" ->
                      /\ pc' = (IF now >= waitTimeout THEN "wait_failed"
                                ELSE "exists")
                      /\ UNCHANGED result
                 [] OTHER -> Finish("None")
       ELSE /\ lastMatch' = "Match"
            /\ Finish("Match")
            /\ UNCHANGED exhausted
    /\ UNCHANGED <<op, seconds, now, timeout, waitTimeout, match, matches>>
    /\ UNCHANGED <<cfgVars, lastMatches>>
    /\ UNCHANGED <<attempts, searches, handlerCalls, handlerSet, promptCalls>>
    /\ UNCHANGED geoVars
    /\ UNCHANGED extVars
\* ------------------------------------------------------ FindFailed steps
\* What find or wait does with the outcome f of its _raiseFindFailed call:
\* the exception leaves the operation, True repeats the while loop, False
\* ends it, and the operation returns match, which is None.
afterRaiseFindFailed(f) ==
    /\ handlerCalls' = handlerCalls + f.handlerCalls
    /\ handlerSet' = f.handlerSet
    /\ promptCalls' = promptCalls + f.promptCalls
    /\ IF f.raised # "None" THEN Finish(f.raised)
       ELSE IF f.retry THEN pc' = "exists" /\ UNCHANGED result
       ELSE Finish("None")
    /\ UNCHANGED <<op, seconds, now, timeout, waitTimeout, match, matches>>
    /\ UNCHANGED <<cfgVars, memVars>>
    /\ UNCHANGED <<attempts, searches, exhausted>>
    /\ UNCHANGED geoVars
    /\ UNCHANGED extVars

\* Lines 405-406 of find.
find_raiseFindFailed(arg, choice) ==
    /\ pc = "find_failed"
    /\ afterRaiseFindFailed(
           raiseFindFailed(findFailedHandler, findFailedResponse, arg, choice))

\* Lines 480-481 of wait.
wait_callRaiseFindFailed(arg, choice) ==
    /\ pc = "wait_failed"
    /\ afterRaiseFindFailed(
           wait_raiseFindFailed(findFailedHandler, findFailedResponse, arg,
                                choice))

\* --------------------------------------------------------------- findAll
\* Lines 414-432 of findAll.
findAll_enter ==
    /\ pc = "findAll"
    /\ IF clipRegionToScreen(rect, screens) = None
       THEN /\ Finish("ValueError")
            /\ UNCHANGED timeout
       ELSE /\ pc' = "findAll_loop"
            /\ timeout' = now + autoWaitTimeout * TicksPerSecond
            /\ UNCHANGED result
    /\ UNCHANGED <<op, seconds, now, waitTimeout, match, matches>>
    /\ UNCHANGED <<cfgVars, memVars, ghostVars>>
    /\ UNCHANGED geoVars
    /\ UNCHANGED extVars

\* The loop condition of line 433.
findAll_continues == now < timeout /\ matches = 0

\* Lines 433-436: one pass of the loop; the capture has n matches.
findAll_poll(n, c) ==
    /\ pc = "findAll_loop"
    /\ findAll_continues
    /\ matches' = n
    /\ now' = now + c + SleepTicks(defaultScanRate)
    /\ attempts' = attempts + 1
    /\ UNCHANGED <<op, pc, seconds, timeout, waitTimeout, match, result>>
    /\ UNCHANGED <<cfgVars, memVars>>
    /\ UNCHANGED <<searches, exhausted, handlerCalls, handlerSet, promptCalls>>
    /\ UNCHANGED geoVars
    /\ UNCHANGED extVars

\* A findAll that forgets the earlier matches when it finds none.
findAll_return_clears ==
    /\ pc = "findAll_loop"
    /\ ~findAll_continues
    /\ IF matches = 0
       THEN Finish("Empty") /\ lastMatches' = 0
       ELSE Finish("Matches") /\ lastMatches' = matches
    /\ UNCHANGED <<op, seconds, now, timeout, waitTimeout, match, matches>>
    /\ UNCHANGED <<cfgVars, lastMatch, ghostVars>>
    /\ UNCHANGED geoVars
    /\ UNCHANGED extVars

\* Lines 438-455: the empty iterator, or the matches, stored in _lastMatches.
findAll_return ==
    /\ pc = "findAll_loop"
    /\ ~findAll_continues
    /\ IF matches = 0
       THEN Finish("Empty") /\ UNCHANGED lastMatches
       ELSE Finish("Matches") /\ lastMatches' = matches
    /\ UNCHANGED <<op, seconds, now, timeout, waitTimeout, match, matches>>
    /\ UNCHANGED <<cfgVars, lastMatch, ghostVars>>
    /\ UNCHANGED geoVars
    /\ UNCHANGED extVars

\* ------------------------------------------------------------- isChanged
\* Lines 1137-1140: r is the clipped region and r.getBitmap() is called on
\* it, also when r is None; otherwise one capture, of which n pixels differ
\* from screen_state, compared with min_changed_pixels m.
isChanged_run(m, n) ==
    /\ pc = "isChanged"
    /\ IF clipRegionToScreen(rect, screens) = None
       THEN /\ Finish("AttributeError")
            /\ UNCHANGED attempts
       ELSE /\ Finish(IF n >= m THEN "True" ELSE "False")
            /\ attempts' = attempts + 1
    /\ UNCHANGED <<op, seconds, now, timeout, waitTimeout, match, matches>>
    /\ UNCHANGED <<cfgVars, memVars>>
    /\ UNCHANGED <<searches, exhausted, handlerCalls, handlerSet, promptCalls>>
    /\ UNCHANGED geoVars
    /\ UNCHANGED extVars

\* ------------------------------------------------------------ waitVanish
\* Lines 489-502 of waitVanish; match starts as True.
waitVanish_enter ==
    /\ pc = "waitVanish"
    /\ IF clipRegionToScreen(rect, screens) = None
       THEN /\ Finish("ValueError")
            /\ UNCHANGED <<timeout, match>>
       ELSE /\ pc' = "waitVanish_loop"
            /\ match' = "True"
            /\ timeout' = now + (IF seconds = None THEN autoWaitTimeout
                                 ELSE seconds[1]) * TicksPerSecond
            /\ UNCHANGED result
    /\ UNCHANGED <<op, seconds, now, waitTimeout, matches>>
    /\ UNCHANGED <<cfgVars, memVars, ghostVars>>
    /\ UNCHANGED geoVars
    /\ UNCHANGED extVars

\* The loop condition of line 504.
waitVanish_continues == match # "None" /\ now < timeout

\* Lines 504-508: one pass of the loop.
waitVanish_poll(found, c) ==
    /\ pc = "waitVanish_loop"
    /\ waitVanish_continues
    /\ match' = (IF found THEN "Match" ELSE "None")
    /\ now' = now + c + SleepTicks(defaultScanRate)
    /\ attempts' = attempts + 1
    /\ UNCHANGED <<op, pc, seconds, timeout, waitTimeout, matches, result>>
    /\ UNCHANGED <<cfgVars, memVars>>
    /\ UNCHANGED <<searches, exhausted, handlerCalls, handlerSet, promptCalls>>
    /\ UNCHANGED geoVars
    /\ UNCHANGED extVars

\* What waitVanish returns after its loop (lines 509-511): False when match
\* is still set; otherwise the function ends without a return statement.
waitVanish_value(m) == IF m # "None" THEN "False" ELSE "None"

waitVanish_return ==
    /\ pc = "waitVanish_loop"
    /\ ~waitVanish_continues
    /\ Finish(waitVanish_value(match))
    /\ UNCHANGED <<op, seconds, now, timeout, waitTimeout, match, matches>>
    /\ UNCHANGED <<cfgVars, memVars, ghostVars>>
    /\ UNCHANGED geoVars
    /\ UNCHANGED extVars

\* ----------------------------------------------------------------- Next
\* The caller takes the result; the region is idle again.
Return ==
    /\ pc = "done"
    /\ op' = "idle"
    /\ pc' = "idle"
    /\ seconds' = None
    /\ now' = 0
    /\ timeout' = 0
    /\ waitTimeout' = 0
    /\ match' = "None"
    /\ matches' = 0
    /\ result' = "none"
    /\ attempts' = 0
    /\ searches' = 0
    /\ exhausted' = 0
    /\ handlerCalls' = 0
    /\ handlerSet' = "None"
    /\ promptCalls' = 0
    /\ UNCHANGED <<cfgVars, memVars>>
    /\ UNCHANGED geoVars
    /\ UNCHANGED extVars

OptTimeouts == {None} \cup {Some(t) : t \in Timeouts}

Next ==
    \/ \E x \in {0, MaxX} : setX(x)
    \/ \E s \in Timeouts : setAutoWaitTimeout(s)
    \/ \E s \in 0 .. MaxScanRate : setWaitScanRate(s)
    \/ \E r \in Responses : setFindFailedResponse(r)
    \/ \E h \in Handlers : setFindFailedHandler(h)
    \/ find
    \/ \E s \in OptTimeouts : wait(s)
    \/ \E s \in OptTimeouts : exists(s)
    \/ \E s \in OptTimeouts : waitVanish(s)
    \/ findAll
    \/ exists_enter
    \/ \E found \in BOOLEAN, c \in 0 .. MaxCaptureTicks : exists_poll(found, c)
    \/ exists_return
    \/ \E arg \in Responses, choice \in Buttons :
           find_raiseFindFailed(arg, choice)
    \/ \E arg \in Responses, choice \in Buttons :
           wait_callRaiseFindFailed(arg, choice)
    \/ findAll_enter
    \/ \E n \in 0 .. MaxMatches, c \in 0 .. MaxCaptureTicks : findAll_poll(n, c)
    \/ findAll_return
    \/ waitVanish_enter
    \/ \E found \in BOOLEAN, c \in 0 .. MaxCaptureTicks :
           waitVanish_poll(found, c)
    \/ waitVanish_return
    \/ isChanged
    \/ \E m \in 0 .. MaxChanged, n \in 0 .. MaxChanged : isChanged_run(m, n)
    \/ Return

Spec == Init /\ [][Next]_vars

\* ============================================================== geometry
\* The arguments of the geometry operations: coordinates left of and above
\* the primary monitor, sizes and distances of either sign.
GeomXs == -1 .. MaxX

GeomYs == -1 .. MaxY

GeomWs == -1 .. MaxW

GeomHs == -1 .. MaxH

Expands == -1 .. MaxExpand

OptExpands == {None} \cup {Some(e) : e \in Expands}

\* Region(x, y, w, h) for arguments a caller passes on purpose.
GeomRegions ==
    {Rect(x, y, w, h) : x \in GeomXs, y \in GeomYs,
                        w \in 0 .. MaxW, h \in 0 .. MaxH}

\* Region.getScreen: the place in the list of the first screen that holds
\* the top left corner, 0 for None.
RECURSIVE getScreenFrom(_, _, _)
getScreenFrom(r, scr, i) ==
    IF i > Len(scr) THEN 0
    ELSE IF /\ r.x >= scr[i].x
            /\ r.x < scr[i].x + scr[i].w
            /\ r.y >= scr[i].y
            /\ r.y < scr[i].y + scr[i].h
         THEN i
         ELSE getScreenFrom(r, scr, i + 1)

getScreen(r, scr) == getScreenFrom(r, scr, 1)

\* What `return Region(...).clipRegionToScreen()` hands to the caller of the
\* operation name for the derived rectangle d: a Region, or None.
Returned(name, d) ==
    LET c == clipRegionToScreen(d, screens)
    IN  [op |-> name,
         kind |-> IF c = None THEN "None" ELSE "Region",
         res |-> c,
         derived |-> Some(d),
         args |-> << >>]

\* The operation died with the exception e before it derived a rectangle.
Died(name, e) ==
    [op |-> name, kind |-> e, res |-> None, derived |-> None, args |-> << >>]

\* The caller has nothing in hand that an earlier operation returned.
NoResult == out = NoOut

\* The caller lets go of what the last operation returned.
Discard ==
    /\ Idle
    /\ ~NoResult
    /\ out' = NoOut
    /\ UNCHANGED <<cfgVars, memVars, callVars, ghostVars, raster>>
    /\ UNCHANGED extVars

\* A geometry operation returns o; the region itself stays as it is.
GeomStep(o) ==
    /\ Idle
    /\ NoResult
    /\ out' = o
    /\ UNCHANGED <<cfgVars, memVars, callVars, ghostVars, raster>>
    /\ UNCHANGED extVars

\* The region is given another rectangle; what an operation returned for
\* the old one is dropped.
GeomSet(r) ==
    /\ Idle
    /\ rect' = r
    /\ out' = NoOut
    /\ UNCHANGED <<screens, autoWaitTimeout, defaultScanRate,
                   findFailedResponse, findFailedHandler>>
    /\ UNCHANGED <<memVars, callVars, ghostVars, raster>>
    /\ UNCHANGED extVars

\* Region.setROI(x, y, w, h): setX, setY, setW, setH.
setROI(x, y, w, h) == NoResult /\ GeomSet(Rect(x, y, w, h))

\* Region.setW(w).
setW(w) == NoResult /\ GeomSet([rect EXCEPT !.w = w])

\* Region.setH(h).
setH(h) == NoResult /\ GeomSet([rect EXCEPT !.h = h])

\* Region.morphTo(region) with the Region the last operation returned.
morphTo == out.res # None /\ GeomSet(out.res[1])

\* Region.clipRegionToScreen() called by the user.
callClipRegionToScreen == GeomStep(Returned("clipRegionToScreen", rect))

\* Region.offset(dx, dy): the only one that raises when nothing is visible.
offset(dx, dy) ==
    LET d == Rect(rect.x + dx, rect.y + dy, rect.w, rect.h)
        r == Returned("offset", d)
    IN  GeomStep(IF r.res = None
                 THEN [r EXCEPT !.kind = "ValueError"]
                 ELSE r)

\* The rectangle of nearby(expand).
nearbyRect(r, expand) ==
    Rect(r.x - expand, r.y - expand, r.w + 2 * expand, r.h + 2 * expand)

\* Region.nearby(expand).
nearby(expand) == GeomStep(Returned("nearby", nearbyRect(rect, expand)))

\* Region.grow(width, height): nearby(width) when height is None.
grow(width, height) ==
    GeomStep(Returned("grow",
        IF height = None
        THEN nearbyRect(rect, width)
        ELSE Rect(rect.x - width, rect.y - height[1],
                  rect.w + 2 * width, rect.h + 2 * height[1])))

\* Region.above(expand).
above(expand) ==
    GeomStep(Returned("above",
        IF expand = None
        THEN Rect(rect.x, 0, rect.w, rect.y)
        ELSE Rect(rect.x, rect.y - expand[1], rect.w, expand[1])))

\* Region.below(expand): without expand the height comes from
\* self.getScreen().getBounds()[3], and getScreen() may be None.
below(expand) ==
    LET y == rect.y + rect.h
        scr == getScreen(rect, screens)
    IN  IF expand # None
        THEN GeomStep(Returned("below", Rect(rect.x, y, rect.w, expand[1])))
        ELSE IF scr = 0
        THEN GeomStep(Died("below", "AttributeError"))
        ELSE GeomStep(Returned("below",
                 Rect(rect.x, y, rect.w, screens[scr].h - y)))

\* Region.left(expand).
left(expand) ==
    GeomStep(Returned("left",
        IF expand = None
        THEN Rect(0, rect.y, rect.x, rect.h)
        ELSE Rect(rect.x - expand[1], rect.y, expand[1], rect.h)))

\* Region.right(expand): without expand the width comes from
\* self.getScreen().getBounds()[2].
right(expand) ==
    LET x == rect.x + rect.w
        scr == getScreen(rect, screens)
    IN  IF expand # None
        THEN GeomStep(Returned("right", Rect(x, rect.y, expand[1], rect.h)))
        ELSE IF scr = 0
        THEN GeomStep(Died("right", "AttributeError"))
        ELSE GeomStep(Returned("right",
                 Rect(x, rect.y, screens[scr].w - x, rect.h)))

\* A region made by Region(x, y, w, h), before any search.
GeomInit ==
    /\ screens \in Layouts
    /\ rect \in GeomRegions
    /\ autoWaitTimeout = DefaultAutoWaitTimeout
    /\ defaultScanRate = None
    /\ findFailedResponse = "ABORT"
    /\ findFailedHandler = NoHandler
    /\ lastMatch = "None"
    /\ lastMatches = 0
    /\ op = "idle"
    /\ pc = "idle"
    /\ seconds = None
    /\ now = 0
    /\ timeout = 0
    /\ waitTimeout = 0
    /\ match = "None"
    /\ matches = 0
    /\ result = "none"
    /\ attempts = 0
    /\ searches = 0
    /\ exhausted = 0
    /\ handlerCalls = 0
    /\ handlerSet = "None"
    /\ promptCalls = 0
    /\ raster = <<0, 0>>
    /\ out = NoOut
    /\ ExtInit

GeomNext ==
    \/ \E x \in GeomXs, y \in GeomYs, w \in GeomWs, h \in GeomHs :
           setROI(x, y, w, h)
    \/ \E w \in GeomWs : setW(w)
    \/ \E h \in GeomHs : setH(h)
    \/ morphTo
    \/ callClipRegionToScreen
    \/ \E dx \in Expands, dy \in Expands : offset(dx, dy)
    \/ \E e \in Expands : nearby(e)
    \/ \E width \in Expands, height \in OptExpands : grow(width, height)
    \/ \E e \in OptExpands : above(e)
    \/ \E e \in OptExpands : below(e)
    \/ \E e \in OptExpands : left(e)
    \/ \E e \in OptExpands : right(e)
    \/ Discard

SpecGeom == GeomInit /\ [][GeomNext]_vars

\* ================================================================ raster
\* getRow and getCol use their own count only when it is from 1 to 9.
MaxCount == 9

RECURSIVE Gcd(_, _)
Gcd(a, b) == IF b = 0 THEN a ELSE Gcd(b, a % b)

RECURSIVE LcmUpTo(_)
LcmUpTo(n) ==
    IF n <= 1 THEN 1
    ELSE LET l == LcmUpTo(n - 1) IN (l * n) \div Gcd(l, n)

\* self.h / numberRows is a true division and its quotient need not be a
\* whole pixel. The raster operations therefore measure in parts of a
\* pixel small enough that every quotient by 1 .. MaxCount is whole.
Scale == LcmUpTo(MaxCount)

\* The region in those parts of a pixel.
Scaled(r) == Rect(r.x * Scale, r.y * Scale, r.w * Scale, r.h * Scale)

\* The count getRow and getCol divide by: lines 967-968 and 986-987.
usedCount(number, rasterCount) ==
    IF number = None \/ number[1] < 1 \/ number[1] > MaxCount
    THEN rasterCount
    ELSE number[1]

\* Region.getRow(row, numberRows) of the region s with raster ras.
getRow(s, ras, row, numberRows) ==
    IF ras[1] = 0 \/ ras[2] = 0 THEN s
    ELSE LET n == usedCount(numberRows, ras[1])
             rowHeight == s.h \div n
         IN  IF row < 0
             THEN IF n - row < 0
                  THEN Rect(s.x, s.y + s.h - rowHeight, s.w, rowHeight)
                  ELSE Rect(s.x, s.y + (n - row) * rowHeight, s.w, rowHeight)
             ELSE IF row > n
             THEN Rect(s.x, s.y, s.w, rowHeight)
             ELSE Rect(s.x, s.y + row * rowHeight, s.w, rowHeight)

\* Region.getCol(column, numberColumns).
getCol(s, ras, column, numberColumns) ==
    IF ras[1] = 0 \/ ras[2] = 0 THEN s
    ELSE LET n == usedCount(numberColumns, ras[2])
             columnWidth == s.w \div n
         IN  IF column < 0
             THEN IF n - column < 0
                  THEN Rect(s.x + s.w - columnWidth, s.y, columnWidth, s.h)
                  ELSE Rect(s.x + (n - column) * columnWidth, s.y,
                            columnWidth, s.h)
             ELSE IF column > n
             THEN Rect(s.x, s.y, columnWidth, s.h)
             ELSE Rect(s.x + column * columnWidth, s.y, columnWidth, s.h)

\* The index getCell uses for the index i it was given, of count n:
\* lines 1011-1026.
cellIndex(i, n) ==
    IF i < 0
    THEN IF n - i < 0 THEN n ELSE n - i
    ELSE IF i > n THEN 0 ELSE i

\* Region.getCell(row, column): the column width is taken from self.h.
getCell(s, ras, row, column) ==
    IF ras[1] = 0 \/ ras[2] = 0 THEN s
    ELSE LET rowHeight == s.h \div ras[1]
             columnWidth == s.h \div ras[2]
         IN  Rect(s.x + cellIndex(column, ras[2]) * columnWidth,
                  s.y + cellIndex(row, ras[1]) * rowHeight,
                  columnWidth, rowHeight)

\* The raster after setRaster(rows, columns): lines 953-957.
rasterAfter(ras, rows, columns) ==
    IF rows <= 0 \/ columns <= 0 THEN ras ELSE <<rows, columns>>

\* A raster operation returns the region r and leaves the raster ras.
RasterStep(name, a, r, ras) ==
    /\ Idle
    /\ NoResult
    /\ out' = [op |-> name, kind |-> "Region", res |-> Some(r),
               derived |-> None, args |-> a]
    /\ raster' = ras
    /\ UNCHANGED <<cfgVars, memVars, callVars, ghostVars>>
    /\ UNCHANGED extVars

\* Region.setRaster(rows, columns): self, or the cell (0, 0) of the new
\* raster.
setRaster(rows, columns) ==
    LET ras == rasterAfter(raster, rows, columns)
    IN  RasterStep("setRaster", <<rows, columns>>,
                   IF rows <= 0 \/ columns <= 0
                   THEN Scaled(rect)
                   ELSE getCell(Scaled(rect), ras, 0, 0),
                   ras)

callGetRow(row, numberRows) ==
    RasterStep("getRow", <<row, numberRows>>,
               getRow(Scaled(rect), raster, row, numberRows), raster)

callGetCol(column, numberColumns) ==
    RasterStep("getCol", <<column, numberColumns>>,
               getCol(Scaled(rect), raster, column, numberColumns), raster)

callGetCell(row, column) ==
    RasterStep("getCell", <<row, column>>,
               getCell(Scaled(rect), raster, row, column), raster)

\* The partitioning constants of the class.
NORTH == 202

SOUTH == 212

EAST == 220

EAST_MID == 310

WEST == 221

WEST_MID == 312

\* The digits str(part) is unpacked into: raster, row, column.
Digits(part) == <<part \div 100, (part \div 10) % 10, part % 10>>

\* Region.get(part) for an int: lines 1047-1058, and 1059-1060 for an int
\* that is not from 200 to 999.
get(part) ==
    IF part >= 200 /\ part <= 999
    THEN LET d == Digits(part)
             ras == rasterAfter(raster, d[1], d[1])
             s == Scaled(rect)
         IN  RasterStep("get", <<part>>,
                 IF d[2] = d[1] /\ d[3] = d[1] THEN s
                 ELSE IF d[2] = d[1] THEN getCol(s, ras, d[3], None)
                 ELSE IF d[3] = d[1] THEN getRow(s, ras, d[2], None)
                 ELSE getCell(s, ras, d[2], d[3]),
                 ras)
    ELSE RasterStep("get", <<part>>, Scaled(rect), raster)

\* The integers passed to get: every code of the rasters 2 .. MaxN, and the
\* neighbours of the range 200 .. 999.
Parts ==
    {100 * n + 10 * r + c : n \in 2 .. MaxN, r \in 0 .. 9, c \in 0 .. 9}
        \cup {199, 1000}

Indices == -MaxIndex .. MaxIndex

\* numberRows, numberColumns: left out, or a number, also one too small
\* and one too large to be used.
OptCounts == {None} \cup {Some(n) : n \in 0 .. MaxRaster} \cup
             {Some(MaxCount + 1)}

\* Regions of a whole number of pixels, square and not.
RasterRegions ==
    {Rect(x, 0, w, h) : x \in 0 .. 1, w \in 1 .. MaxW, h \in 1 .. MaxH}

RasterInit ==
    /\ screens \in Layouts
    /\ rect \in RasterRegions
    /\ autoWaitTimeout = DefaultAutoWaitTimeout
    /\ defaultScanRate = None
    /\ findFailedResponse = "ABORT"
    /\ findFailedHandler = NoHandler
    /\ lastMatch = "None"
    /\ lastMatches = 0
    /\ op = "idle"
    /\ pc = "idle"
    /\ seconds = None
    /\ now = 0
    /\ timeout = 0
    /\ waitTimeout = 0
    /\ match = "None"
    /\ matches = 0
    /\ result = "none"
    /\ attempts = 0
    /\ searches = 0
    /\ exhausted = 0
    /\ handlerCalls = 0
    /\ handlerSet = "None"
    /\ promptCalls = 0
    /\ raster = <<0, 0>>
    /\ out = NoOut
    /\ ExtInit

RasterNext ==
    \/ \E rows \in 0 .. MaxRaster, columns \in 0 .. MaxRaster :
           setRaster(rows, columns)
    \/ \E row \in Indices, n \in OptCounts : callGetRow(row, n)
    \/ \E column \in Indices, n \in OptCounts : callGetCol(column, n)
    \/ \E row \in Indices, column \in Indices : callGetCell(row, column)
    \/ \E part \in Parts : get(part)
    \/ Discard

SpecRaster == RasterInit /\ [][RasterNext]_vars

\* =============================================================== Pattern
Paths == {"a.png", "b.png"}

Similarities == 0 .. SimSteps

Offsets == 0 .. MaxOffset

\* A method of the pattern in hand returns the Pattern q.
PatternStep(name, a, q) ==
    /\ Idle
    /\ NoResult
    /\ out' = [op |-> name, kind |-> "Pattern", res |-> Some(q),
               derived |-> Some(pattern), args |-> a]
    /\ UNCHANGED <<cfgVars, memVars, callVars, ghostVars, raster, extVars>>

\* Pattern.similar(similarity): Pattern(self.path) with the similarity set.
similar(m, similarity) ==
    PatternStep("similar", <<similarity>>,
                [NewPattern(pattern.path, m) EXCEPT !.similarity = similarity])

\* Pattern.exact(): Pattern(self.path) with the similarity 1.0.
exact(m) ==
    PatternStep("exact", << >>,
                [NewPattern(pattern.path, m) EXCEPT !.similarity = SimSteps])

\* Pattern.targetOffset(dx, dy): Pattern(self.path) with the similarity of
\* this one and the offset set.
targetOffset(m, dx, dy) ==
    PatternStep("targetOffset", <<dx, dy>>,
                [NewPattern(pattern.path, m) EXCEPT
                     !.similarity = pattern.similarity,
                     !.offset = <<dx, dy>>])

\* The caller goes on with the Pattern returned, as in p.similar(s).exact().
chain ==
    /\ Idle
    /\ out.kind = "Pattern"
    /\ pattern' = out.res[1]
    /\ out' = NoOut
    /\ UNCHANGED <<cfgVars, memVars, callVars, ghostVars, raster, obsVars,
                   restVars>>

PatternInit ==
    /\ screens \in Layouts
    /\ rect = Rect(0, 0, 1, 1)
    /\ autoWaitTimeout = DefaultAutoWaitTimeout
    /\ defaultScanRate = None
    /\ findFailedResponse = "ABORT"
    /\ findFailedHandler = NoHandler
    /\ lastMatch = "None"
    /\ lastMatches = 0
    /\ op = "idle"
    /\ pc = "idle"
    /\ seconds = None
    /\ now = 0
    /\ timeout = 0
    /\ waitTimeout = 0
    /\ match = "None"
    /\ matches = 0
    /\ result = "none"
    /\ attempts = 0
    /\ searches = 0
    /\ exhausted = 0
    /\ handlerCalls = 0
    /\ handlerSet = "None"
    /\ promptCalls = 0
    /\ raster = <<0, 0>>
    /\ out = NoOut
    /\ \E path \in Paths, m \in Similarities : pattern = NewPattern(path, m)
    /\ ObsInit
    /\ RestInit

\* The m of each step is Settings.MinSimilarity at the time of the call.
PatternNext ==
    \/ \E m \in Similarities, s \in Similarities : similar(m, s)
    \/ \E m \in Similarities : exact(m)
    \/ \E m \in Similarities, dx \in Offsets, dy \in Offsets :
           targetOffset(m, dx, dy)
    \/ chain
    \/ Discard

SpecPattern == PatternInit /\ [][PatternNext]_vars

\* ================================================================= Match
\* The needle images: <<width, height>>.
Needles == {<<w, 1>> : w \in 1 .. ScreenW}

\* Region.getCenter of the rectangle r, in half pixels: the halves of
\* self.w / 2 and self.h / 2 are kept.
getCenter(r) == <<2 * r.x + r.w, 2 * r.y + r.h>>

\* Location.offset(dx, dy) on a location in half pixels.
Location_offset(loc, dx, dy) == <<loc[1] + 2 * dx, loc[2] + 2 * dy>>

\* Match.getTarget: the center moved by the target offset, in half pixels.
getTarget(m) == Location_offset(getCenter(m.rect), m.target[1], m.target[2])

\* A translation that leaves the position as the matcher gave it.
globalPosition_local(self, position) == position

\* Lines 556-557: the position in the haystack becomes one on the screen.
globalPosition(self, position) ==
    <<position[1] + self.x, position[2] + self.y>>

\* Match(score, target, rect): lines 1462-1467.
NewMatch(score, target, position, size) ==
    [rect |-> Rect(position[1], position[2], size[1], size[2]),
     score |-> score,
     target |-> target]

\* TemplateMatcher.findBestMatch(needle, similarity) on the bitmap of r:
\* the places and scores it can report for a needle that is there.
findBestMatch(r, needle, similarity) ==
    {<<<<px, py>>, c>> : px \in 0 .. r.w - needle[1],
                         py \in 0 .. r.h - needle[2],
                         c \in similarity .. SimSteps}

\* Region.exists(pattern) when the first capture holds the needle: the
\* clip, the search and lines 554-570; d is the time the call took.
exists_match(needle, found, d) ==
    /\ Idle
    /\ NoResult
    /\ clipRegionToScreen(rect, screens) # None
    /\ found \in findBestMatch(clipRegionToScreen(rect, screens)[1], needle,
                               pattern.similarity)
    /\ lastMatch' = NewMatch(found[2], pattern.offset,
                             globalPosition(rect, found[1]), needle)
    /\ lastMatchTime' = d
    /\ out' = [op |-> "exists", kind |-> "Match",
               res |-> Some(lastMatch'),
               derived |-> None,
               args |-> <<found[1], found[2], needle>>]
    /\ UNCHANGED <<cfgVars, lastMatches, callVars, ghostVars, raster,
                   patVars, obsVars>>
    /\ UNCHANGED <<worker, observeEvent, throwException, keysDown,
                   buttonDown, dragPc>>

\* An exists without match that forgets the time of the last one.
exists_none_forgets(needle) ==
    /\ Idle
    /\ NoResult
    /\ out' = [op |-> "exists", kind |-> "None", res |-> None,
               derived |-> None, args |-> <<needle>>]
    /\ lastMatchTime' = 0
    /\ UNCHANGED <<cfgVars, memVars, callVars, ghostVars, raster,
                   patVars, obsVars>>
    /\ UNCHANGED <<worker, observeEvent, throwException, keysDown,
                   buttonDown, dragPc>>

\* Region.exists(pattern) when no capture holds the needle before the
\* deadline (lines 550-552), or when the clip fails (lines 520-521).
exists_none(needle) ==
    /\ Idle
    /\ NoResult
    /\ out' = [op |-> "exists",
               kind |-> IF clipRegionToScreen(rect, screens) = None
                        THEN "ValueError" ELSE "None",
               res |-> None, derived |-> None, args |-> <<needle>>]
    /\ UNCHANGED <<cfgVars, memVars, callVars, ghostVars, raster, extVars>>

\* The patterns a search is given.
Patterns ==
    {[path |-> path, similarity |-> m, offset |-> <<dx, dy>>] :
         path \in {"a.png"}, m \in Similarities,
         dx \in Offsets, dy \in Offsets}

MatchInit ==
    /\ screens \in Layouts
    /\ rect \in {Rect(x, 0, w, 1) : x \in -1 .. MaxX, w \in 1 .. ScreenW}
    /\ autoWaitTimeout = DefaultAutoWaitTimeout
    /\ defaultScanRate = None
    /\ findFailedResponse = "ABORT"
    /\ findFailedHandler = NoHandler
    /\ lastMatch = "None"
    /\ lastMatches = 0
    /\ op = "idle"
    /\ pc = "idle"
    /\ seconds = None
    /\ now = 0
    /\ timeout = 0
    /\ waitTimeout = 0
    /\ match = "None"
    /\ matches = 0
    /\ result = "none"
    /\ attempts = 0
    /\ searches = 0
    /\ exhausted = 0
    /\ handlerCalls = 0
    /\ handlerSet = "None"
    /\ promptCalls = 0
    /\ raster = <<0, 0>>
    /\ out = NoOut
    /\ pattern \in Patterns
    /\ ObsInit
    /\ RestInit

MatchNext ==
    \/ \E needle \in Needles, px \in 0 .. ScreenW, c \in Similarities,
          d \in 0 .. MaxCaptureTicks :
           exists_match(needle, <<<<px, 0>>, c>>, d)
    \/ \E needle \in Needles : exists_none(needle)
    \/ Discard

SpecMatch == MatchInit /\ [][MatchNext]_vars

\* ============================================================== Observer
\* What the caller passes as handler: nothing, or a function.
EventHandlers == {NoHandler, "handler"}

\* What a handler does when it is called: it only looks at the event, it
\* calls the region's stopObserver(), or it calls the region's observe(0).
HandlerDoes == {"looks", "stops", "observes"}

callable(handler) == handler # NoHandler

OptObserve == {None} \cup {Some(t) : t \in 0 .. MaxObserve}

\* Everything but the Observer of the region and the last result.
regionFrame == <<cfgVars, memVars, callVars, ghostVars, raster, patVars,
                 restVars>>

\* The observe loop's own variables.
loopVars == <<obsPc, obsI, obsNow, obsTimeout, checks, stoppedIn,
              reentered>>

\* No observe loop of this process is running and the caller's last call
\* has returned.
ObsIdle == Idle /\ obsPc = "idle" /\ NoResult

\* A method of the observer API returns, or raises, kind.
ObsReturn(name, kind, a, r) ==
    out' = [op |-> name, kind |-> kind, res |-> r, derived |-> None,
            args |-> a]

\* Observer.register_event: the dictionary of the new watcher, lines
\* 1336-1344. Its name, a uuid, is its place in _events.
newEvent(event_type, min_changed, handler) ==
    [event_type |-> event_type, min_changed |-> min_changed, count |-> 0,
     handler |-> handler, active |-> TRUE]

\* Region.onAppear / onVanish(pattern, handler): register_event with a
\* Pattern.
register(name, event_type, handler) ==
    /\ ObsIdle
    /\ Len(events) < MaxEvents
    /\ events' = Append(events, newEvent(event_type, 0, handler))
    /\ ObsReturn(name, "name", <<handler>>, Some(Len(events) + 1))
    /\ UNCHANGED <<caught_events, isStopped, isRunning, onScreen, background>>
    /\ UNCHANGED <<regionFrame, loopVars>>

onAppear(handler) == register("onAppear", "APPEAR", handler)

onVanish(handler) == register("onVanish", "VANISH", handler)

\* Region.onChange(min_changed_pixels, handler): with arguments of the
\* supported kinds register_event is given the tuple (min_changed_pixels,
\* bitmap) as pattern, which is no Pattern and no string: ValueError, line
\* 1334; with others the ValueError of line 1132.
onChange(supported, min_changed) ==
    /\ ObsIdle
    /\ ObsReturn("onChange", "ValueError", <<supported, min_changed>>, None)
    /\ UNCHANGED <<regionFrame, obsVars>>

\* An observe that clears the stop flag when it starts.
observe_resets(secs) ==
    /\ ObsIdle
    /\ obsPc' = "test"
    /\ obsTimeout' = secs
    /\ obsNow' = 0
    /\ obsI' = 0
    /\ checks' = 0
    /\ stoppedIn' = 0
    /\ reentered' = "none"
    /\ isStopped' = FALSE
    /\ UNCHANGED <<events, caught_events, isRunning, onScreen, background>>
    /\ UNCHANGED <<regionFrame, out>>

\* Region.observe(seconds): lines 1152-1159.
observe(secs) ==
    /\ ObsIdle
    /\ IF isRunning
       THEN /\ ObsReturn("observe", "False", <<secs>>, None)
            /\ UNCHANGED loopVars
       ELSE /\ obsPc' = "test"
            /\ obsTimeout' = secs
            /\ obsNow' = 0
            /\ obsI' = 0
            /\ checks' = 0
            /\ stoppedIn' = 0
            /\ reentered' = "none"
            /\ UNCHANGED out
    /\ UNCHANGED <<events, caught_events, isStopped, isRunning, onScreen,
                   background>>
    /\ UNCHANGED regionFrame

\* A loop that goes on after a stop was asked for.
observe_continues_deaf == obsTimeout = None \/ obsNow < obsTimeout[1]

\* The condition of the while of line 1162.
observe_continues ==
    /\ ~isStopped
    /\ obsTimeout = None \/ obsNow < obsTimeout[1]

\* Line 1162: the loop goes into check_events, or observe returns True.
observe_test ==
    /\ obsPc = "test"
    /\ IF observe_continues
       THEN /\ checks < MaxChecks
            /\ obsPc' = "check"
            /\ obsI' = 1
            /\ checks' = checks + 1
            /\ UNCHANGED out
            /\ UNCHANGED <<obsNow, obsTimeout>>
       ELSE /\ obsPc' = "idle"
            /\ obsI' = 0
            /\ obsNow' = 0
            /\ obsTimeout' = None
            /\ ObsReturn("observe", "True", <<obsTimeout>>, None)
            /\ UNCHANGED checks
    /\ UNCHANGED <<stoppedIn, reentered>>
    /\ UNCHANGED <<events, caught_events, isStopped, isRunning, onScreen,
                   background>>
    /\ UNCHANGED <<regionFrame>>

\* The test of the watcher event in check_events: exists(pattern, 0) for
\* APPEAR and VANISH, isChanged for CHANGE with n pixels differing.
fires(event, n) ==
    CASE event.event_type = "APPEAR" -> onScreen
      [] event.event_type = "VANISH" -> ~onScreen
      [] event.event_type = "CHANGE" -> n >= event.min_changed

\* caught_events after the watcher event fired: the APPEAR branch appends
\* whether or not there is a handler, the others only without one.
caughtAfterIn(queue, event, name) ==
    LET e == [type |-> event.event_type, count |-> event.count,
              watcher |-> name]
    IN  IF event.event_type = "APPEAR" \/ ~callable(event.handler)
        THEN Append(queue, e)
        ELSE queue

\* The same for the Observer of the caller's process.
caughtAfter(event, name) == caughtAfterIn(caught_events, event, name)

\* A watcher that counts its firing and stays active.
fired_stays_active(event) == [event EXCEPT !.count = @ + 1]

\* The watcher after it fired: count += 1 and active = False.
fired(event) == [event EXCEPT !.count = @ + 1, !.active = FALSE]

\* The handler the watcher was registered with, if there is one, is called.
runHandler(handler, does) ==
    /\ IF callable(handler) /\ does = "stops"
       THEN /\ isStopped' = TRUE
            /\ isRunning' = FALSE
            /\ stoppedIn' = IF stoppedIn = 0 THEN checks ELSE stoppedIn
       ELSE UNCHANGED <<isStopped, isRunning, stoppedIn>>
    /\ IF callable(handler) /\ does = "observes"
       THEN reentered' = IF isRunning THEN "False" ELSE "True"
       ELSE UNCHANGED reentered

\* One pass of the for loop of check_events, lines 1348-1394.
check_event(n, does) ==
    /\ obsPc = "check"
    /\ obsI <= Len(events)
    \* n is read for a CHANGE watcher only, does for a callable handler only
    /\ events[obsI].event_type # "CHANGE" => n = 0
    /\ ~callable(events[obsI].handler) => does = "looks"
    /\ LET event == events[obsI]
       IN  IF event.active /\ fires(event, n)
           THEN /\ runHandler(event.handler, does)
                /\ caught_events' = caughtAfter(event, obsI)
                /\ events' = [events EXCEPT ![obsI] = fired(event)]
           ELSE UNCHANGED <<events, caught_events, isStopped,
                            isRunning, stoppedIn, reentered>>
    /\ lastMatch' = IF /\ events[obsI].active
                       /\ events[obsI].event_type \in {"APPEAR", "VANISH"}
                       /\ onScreen
                    THEN "Match" ELSE lastMatch
    /\ obsI' = obsI + 1
    /\ UNCHANGED <<obsPc, obsNow, obsTimeout, checks, onScreen, background>>
    /\ UNCHANGED <<cfgVars, lastMatches, callVars, ghostVars, geoVars,
                   patVars, restVars>>

\* A sleep during which the clock stands still.
observe_sleep_frozen ==
    /\ obsPc = "check"
    /\ obsI > Len(events)
    /\ obsPc' = "test"
    /\ UNCHANGED <<obsI, obsNow, obsTimeout, checks, stoppedIn, reentered>>
    /\ UNCHANGED <<events, caught_events, isStopped, isRunning, onScreen,
                   background>>
    /\ UNCHANGED <<regionFrame, out>>

\* check_events has gone through all watchers: the sleep of line 1166.
observe_sleep ==
    /\ obsPc = "check"
    /\ obsI > Len(events)
    /\ obsPc' = "test"
    /\ obsNow' = IF obsTimeout = None THEN obsNow ELSE obsNow + 1
    /\ UNCHANGED <<obsI, obsTimeout, checks, stoppedIn, reentered>>
    /\ UNCHANGED <<events, caught_events, isStopped, isRunning, onScreen,
                   background>>
    /\ UNCHANGED <<regionFrame, out>>

\* Region.observeInBackground(seconds): a process running observe on
\* copies of the objects is started; one started without timeout runs on.
observeInBackground(secs) ==
    /\ ObsIdle
    /\ IF isRunning
       THEN /\ ObsReturn("observeInBackground", "False", <<background>>, None)
            /\ UNCHANGED background
       ELSE /\ background' = (background \/ secs = None)
            /\ ObsReturn("observeInBackground", "True", <<background>>, None)
    /\ UNCHANGED <<events, caught_events, isStopped, isRunning, onScreen>>
    /\ UNCHANGED <<regionFrame, loopVars>>

\* Region.stopObserver() called by the script itself.
stopObserver ==
    /\ ObsIdle
    /\ isStopped' = TRUE
    /\ isRunning' = FALSE
    /\ ObsReturn("stopObserver", "None", << >>, None)
    /\ UNCHANGED <<events, caught_events, onScreen, background>>
    /\ UNCHANGED <<regionFrame, loopVars>>

\* Region.getEvents(): the queue is emptied, then event["name"] is asked of
\* the first ObserveEvent, which cannot be subscripted.
getEvents ==
    /\ ObsIdle
    /\ caught_events' = << >>
    /\ IF caught_events = << >>
       THEN ObsReturn("getEvents", "list", << >>, Some(<< >>))
       ELSE ObsReturn("getEvents", "TypeError", << >>, None)
    /\ UNCHANGED <<events, isStopped, isRunning, onScreen, background>>
    /\ UNCHANGED <<regionFrame, loopVars>>

\* Region.getEvent(name): event["name"] on the first ObserveEvent.
getEvent(name) ==
    /\ ObsIdle
    /\ IF caught_events = << >>
       THEN ObsReturn("getEvent", "None", <<name>>, None)
       ELSE ObsReturn("getEvent", "TypeError", <<name>>, None)
    /\ UNCHANGED <<regionFrame, obsVars>>

\* Observer.inactivate_event / activate_event(name): the watcher is a
\* dict and `.active = ...` sets an attribute on it.
setAttributeActive(op_name, name) ==
    /\ ObsIdle
    /\ IF name \in DOMAIN events
       THEN ObsReturn(op_name, "AttributeError", <<name>>, None)
       ELSE ObsReturn(op_name, "None", <<name>>, None)
    /\ UNCHANGED <<regionFrame, obsVars>>

\* Region.setInactive(name).
setInactive(name) == setAttributeActive("setInactive", name)

\* Region.setActive(name).
setActive(name) == setAttributeActive("setActive", name)

\* The pattern comes onto the screen or goes from it.
screenChanges ==
    /\ onScreen' = ~onScreen
    /\ UNCHANGED <<events, caught_events, isStopped, isRunning, background>>
    /\ UNCHANGED <<regionFrame, loopVars, out>>

\* The caller takes the result of its call; what was noted about the loop of
\* that call is forgotten with it.
forget ==
    /\ out # NoOut
    /\ out' = NoOut
    /\ checks' = 0
    /\ stoppedIn' = 0
    /\ reentered' = "none"
    /\ UNCHANGED <<obsPc, obsI, obsNow, obsTimeout>>
    /\ UNCHANGED <<events, caught_events, isStopped, isRunning, onScreen,
                   background>>
    /\ UNCHANGED <<regionFrame>>

ObserverInit ==
    /\ screens = OneScreen
    /\ rect = Rect(0, 0, 1, 1)
    /\ autoWaitTimeout = DefaultAutoWaitTimeout
    /\ defaultScanRate = None
    /\ findFailedResponse = "ABORT"
    /\ findFailedHandler = NoHandler
    /\ lastMatch = "None"
    /\ lastMatches = 0
    /\ op = "idle"
    /\ pc = "idle"
    /\ seconds = None
    /\ now = 0
    /\ timeout = 0
    /\ waitTimeout = 0
    /\ match = "None"
    /\ matches = 0
    /\ result = "none"
    /\ attempts = 0
    /\ searches = 0
    /\ exhausted = 0
    /\ handlerCalls = 0
    /\ handlerSet = "None"
    /\ promptCalls = 0
    /\ raster = <<0, 0>>
    /\ out = NoOut
    /\ ExtInit

ObserverNext ==
    \/ \E h \in EventHandlers : onAppear(h)
    \/ \E h \in EventHandlers : onVanish(h)
    \/ \E b \in BOOLEAN, m \in 0 .. MaxChanged : onChange(b, m)
    \/ \E s \in OptObserve : observe(s)
    \/ observe_test
    \/ \E n \in 0 .. MaxChanged, does \in HandlerDoes : check_event(n, does)
    \/ observe_sleep
    \/ \E s \in OptObserve : observeInBackground(s)
    \/ stopObserver
    \/ getEvents
    \/ \E name \in 1 .. MaxEvents : getEvent(name)
    \/ \E name \in 1 .. MaxEvents : setInactive(name)
    \/ \E name \in 1 .. MaxEvents : setActive(name)
    \/ screenChanges
    \/ forget

SpecObserver == ObserverInit /\ [][ObserverNext]_vars

\* The loop of observe is sequential code of a running thread: the while
\* test, each pass of the for loop of check_events and the sleep, once
\* reached, are carried out.
ObserverFairness ==
    /\ WF_vars(observe_test)
    /\ WF_vars(\E n \in 0 .. MaxChanged, does \in HandlerDoes :
                   check_event(n, does))
    /\ WF_vars(observe_sleep)

SpecObserverLive == SpecObserver /\ ObserverFairness

\* ================================================== observeInBackground
\* A worker that is a thread of the caller's process: one object for both.
processMemory_shared(mine, theirs) == theirs

\* What the caller's process holds of an object after the process started
\* by observeInBackground has written theirs to its own: the child of
\* multiprocessing.Process works on copies, the caller's object is as it
\* was.
processMemory(mine, theirs) == mine

\* The devices and objects no Observer method touches.
deviceVars == <<observeEvent, throwException, lastMatchTime, keysDown,
                buttonDown, dragPc>>

\* What the process started by observeInBackground leaves alone in the
\* caller's process.
callerFrame == <<cfgVars, memVars, callVars, ghostVars, raster, patVars,
                 deviceVars, isRunning, loopVars, background, out>>

\* Region.observeInBackground(seconds) with the process it starts: observe
\* begins there on copies of the region and its Observer as they are now.
observeInBackground_process(secs) ==
    /\ ObsIdle
    /\ IF isRunning
       THEN /\ ObsReturn("observeInBackground", "False", <<background>>, None)
            /\ UNCHANGED <<background, worker>>
       ELSE /\ background' = (background \/ secs = None)
            /\ worker' = [pc |-> "test", events |-> events,
                          caught_events |-> caught_events,
                          isStopped |-> isStopped, obsI |-> 0, obsNow |-> 0,
                          obsTimeout |-> secs]
            /\ ObsReturn("observeInBackground", "True", <<background>>, None)
    /\ UNCHANGED <<events, caught_events, isStopped, isRunning, onScreen>>
    /\ UNCHANGED <<cfgVars, memVars, callVars, ghostVars, raster, patVars,
                   deviceVars, loopVars>>

\* The Observer of the caller's process after a step of the other process
\* that left its own Observer as w.
callerAfter(w) ==
    /\ events' = processMemory(events, w.events)
    /\ caught_events' = processMemory(caught_events, w.caught_events)
    /\ isStopped' = processMemory(isStopped, w.isStopped)
    /\ UNCHANGED <<callerFrame, onScreen>>

\* Line 1162 in the process: into check_events, or observe returns and the
\* process ends.
worker_test ==
    /\ worker.pc = "test"
    /\ worker' =
          IF /\ ~worker.isStopped
             /\ worker.obsTimeout = None
                \/ worker.obsNow < worker.obsTimeout[1]
          THEN [worker EXCEPT !.pc = "check", !.obsI = 1]
          ELSE [worker EXCEPT !.pc = "ended", !.obsI = 0]
    /\ callerAfter(worker')

\* One pass of the for loop of check_events in the process; a handler
\* called there either only looks at the event or calls stopObserver().
worker_check_event(does) ==
    /\ worker.pc = "check"
    /\ worker.obsI <= Len(worker.events)
    /\ ~callable(worker.events[worker.obsI].handler) => does = "looks"
    /\ LET k == worker.obsI
           e == worker.events[k]
       IN  worker' =
             IF e.active /\ fires(e, 0)
             THEN [worker EXCEPT
                     !.events[k] = fired(e),
                     !.caught_events =
                         caughtAfterIn(worker.caught_events, e, k),
                     !.isStopped = (@ \/ (callable(e.handler)
                                            /\ does = "stops")),
                     !.obsI = k + 1]
             ELSE [worker EXCEPT !.obsI = k + 1]
    /\ callerAfter(worker')

\* The sleep of line 1166 in the process.
worker_sleep ==
    /\ worker.pc = "check"
    /\ worker.obsI > Len(worker.events)
    /\ worker' = [worker EXCEPT
                    !.pc = "test",
                    !.obsNow = IF worker.obsTimeout = None THEN @ ELSE @ + 1]
    /\ callerAfter(worker')

BackgroundNext ==
    \/ \E h \in EventHandlers : onAppear(h)
    \/ \E h \in EventHandlers : onVanish(h)
    \/ \E s \in OptObserve : observeInBackground_process(s)
    \/ worker_test
    \/ \E does \in {"looks", "stops"} : worker_check_event(does)
    \/ worker_sleep
    \/ stopObserver
    \/ screenChanges
    \/ forget

SpecBackground == ObserverInit /\ [][BackgroundNext]_vars

\* The process started runs: its loop goes on step by step.
BackgroundFairness ==
    /\ WF_vars(worker_test)
    /\ WF_vars(\E does \in {"looks", "stops"} : worker_check_event(does))
    /\ WF_vars(worker_sleep)

SpecBackgroundLive == SpecBackground /\ BackgroundFairness

\* ========================================================== ObserveEvent
\* A new Region(0, 0, 1, 1) on one monitor, with nothing returned yet.
NewRegion ==
    /\ screens = OneScreen
    /\ rect = Rect(0, 0, 1, 1)
    /\ autoWaitTimeout = DefaultAutoWaitTimeout
    /\ defaultScanRate = None
    /\ findFailedResponse = "ABORT"
    /\ findFailedHandler = NoHandler
    /\ lastMatch = "None"
    /\ lastMatches = 0
    /\ op = "idle"
    /\ pc = "idle"
    /\ seconds = None
    /\ now = 0
    /\ timeout = 0
    /\ waitTimeout = 0
    /\ match = "None"
    /\ matches = 0
    /\ result = "none"
    /\ attempts = 0
    /\ searches = 0
    /\ exhausted = 0
    /\ handlerCalls = 0
    /\ handlerSet = "None"
    /\ promptCalls = 0
    /\ raster = <<0, 0>>
    /\ out = NoOut

\* The event types: ObserveEvent._valid_types, and one that is not among
\* them (the constructor takes any).
EventTypes ==
    {"APPEAR", "VANISH", "CHANGE", "GENERIC", "FINDFAILED", "MISSING",
     "OTHER"}

\* The events there can be: with or without a pattern, which is a Pattern
\* or a path, with or without a match.
ObserveEvents ==
    {NewObserveEvent(0, pat, m, t) :
        pat \in {None, Some("Pattern"), Some("str")},
        m \in {None, Some("Match")},
        t \in EventTypes}

\* valid_types of getMatch with CHANGE among them.
getMatch_valid_types_change == {"APPEAR", "VANISH", "CHANGE"}

\* valid_types of getImage, getMatch and getChanges.
getImage_valid_types == {"APPEAR", "VANISH", "FINDFAILED", "MISSING"}

getMatch_valid_types == {"APPEAR", "VANISH"}

getChanges_valid_types == {"CHANGE"}

\* ObserveEvent.getImage: what it raises, or "image" for cv2.imread of the
\* pattern's path; a pattern that is a path has no attribute path.
getImage(e) ==
    IF e.type \notin getImage_valid_types THEN "TypeError"
    ELSE IF e.pattern = None THEN "ValueError"
    ELSE IF e.pattern = Some("str") THEN "AttributeError"
    ELSE "image"

\* ObserveEvent.getMatch: what it raises, or "match" for self._match.
getMatch(e) ==
    IF e.type \notin getMatch_valid_types THEN "TypeError"
    ELSE IF e.match = None THEN "ValueError"
    ELSE "match"

\* ObserveEvent.getChanges: what it raises, or "match" for self._match.
getChanges(e) ==
    IF e.type \notin getChanges_valid_types THEN "TypeError"
    ELSE IF e.match = None THEN "ValueError"
    ELSE "match"

\* The accessor named name is called on the event in hand and gives kind.
EventStep(name, kind) ==
    /\ Idle
    /\ NoResult
    /\ out' = [op |-> name, kind |-> kind, res |-> None, derived |-> None,
               args |-> << >>]
    /\ UNCHANGED <<cfgVars, memVars, callVars, ghostVars, raster, extVars>>

callGetImage == EventStep("getImage", getImage(observeEvent))

callGetMatch == EventStep("getMatch", getMatch(observeEvent))

callGetChanges == EventStep("getChanges", getChanges(observeEvent))

EventInit ==
    /\ NewRegion
    /\ pattern = NewPattern("a.png", SimSteps)
    /\ ObsInit
    /\ worker = NoWorker
    /\ observeEvent \in ObserveEvents
    /\ throwException = TRUE
    /\ lastMatchTime = 0
    /\ keysDown = ""
    /\ buttonDown = FALSE
    /\ dragPc = NoDrag

EventNext ==
    \/ callGetImage
    \/ callGetMatch
    \/ callGetChanges
    \/ Discard

SpecEvent == EventInit /\ [][EventNext]_vars

\* ===================================================== throw exceptions
\* Region.setThrowException(setting).
setThrowException(setting) ==
    /\ Idle
    /\ IF setting
       THEN throwException' = TRUE /\ findFailedResponse' = "ABORT"
       ELSE throwException' = FALSE /\ findFailedResponse' = "SKIP"
    /\ UNCHANGED <<screens, rect, autoWaitTimeout, defaultScanRate,
                   findFailedHandler>>
    /\ UNCHANGED <<memVars, callVars, ghostVars, geoVars, patVars, obsVars>>
    /\ UNCHANGED <<worker, observeEvent, lastMatchTime, keysDown, buttonDown,
                   dragPc>>

\* Region.getThrowException().
getThrowException == throwException

\* Region.getFindFailedResponse().
getFindFailedResponse == findFailedResponse

ConfigInit == NewRegion /\ ExtInit

ConfigNext ==
    \/ \E setting \in BOOLEAN : setThrowException(setting)
    \/ \E r \in Responses : setFindFailedResponse(r)
    \/ \E h \in Handlers : setFindFailedHandler(h)
    \/ \E t \in Timeouts : setAutoWaitTimeout(t)
    \/ \E r \in 0 .. MaxScanRate : setWaitScanRate(r)

SpecConfig == ConfigInit /\ [][ConfigNext]_vars

\* ============================================================ find again
\* find and the FindFailed protocol on a region that is on the screen.
RetryNext ==
    \/ \E r \in Responses : setFindFailedResponse(r)
    \/ \E h \in Handlers : setFindFailedHandler(h)
    \/ find
    \/ exists_enter
    \/ \E found \in BOOLEAN, c \in 0 .. MaxCaptureTicks : exists_poll(found, c)
    \/ exists_return
    \/ \E arg \in Responses, choice \in Buttons :
           find_raiseFindFailed(arg, choice)
    \/ Return

\* find is sequential code: each of its steps, once reached, is carried
\* out.
RetryFairness ==
    /\ WF_vars(exists_enter)
    /\ WF_vars(\E found \in BOOLEAN, c \in 0 .. MaxCaptureTicks :
                   exists_poll(found, c))
    /\ WF_vars(exists_return)
    /\ WF_vars(\E arg \in Responses, choice \in Buttons :
                   find_raiseFindFailed(arg, choice))

SpecRetry == ConfigInit /\ [][RetryNext]_vars /\ RetryFairness

\* ============================================================== dragDrop
\* What drag and dropAt accept as their argument, by its type, and an
\* object of another type.
DragTargets == {"Pattern", "Match", "Region", "Location", "other"}

\* The modifiers argument of dragDrop: none, or keys to hold.
Modifiers == {"", "{SHIFT}"}

\* The if chain of drag (698-709) and of dropAt (721-732): what comes of
\* resolving the argument to a Location. A Pattern or string goes through
\* self.find(...).getTarget(), where find returns a Match when the pattern
\* is found and otherwise what _raiseFindFailed makes of it: the exception,
\* another search, or None, which has no getTarget.
resolveTarget(target, found, r) ==
    CASE target = "Pattern" ->
             IF found THEN "Location"
             ELSE IF r.raised # "None" THEN r.raised
             ELSE IF r.retry THEN "retry"
             ELSE "AttributeError"
      [] target \in {"Match", "Region", "Location"} -> "Location"
      [] OTHER -> "TypeError"

\* The region is at no point of a dragDrop.
DragIdle == Idle /\ NoResult /\ dragPc.pc = "idle"

\* What no step of dragDrop touches.
dragFrame == <<screens, rect, autoWaitTimeout, defaultScanRate,
               findFailedResponse, findFailedHandler, lastMatches, callVars,
               ghostVars, raster, patVars, obsVars, worker, observeEvent,
               throwException, lastMatchTime>>

\* An exception leaves dragDrop at the point where it stands.
dragRaises(kind) ==
    /\ dragPc' = [dragPc EXCEPT !.pc = "idle"]
    /\ out' = [op |-> "dragDrop", kind |-> kind, res |-> None,
               derived |-> None,
               args |-> <<dragPc.dragFrom, dragPc.dragTo, dragPc.modifiers>>]

\* Region.dragDrop(dragFrom, dragTo, modifiers): lines 746-747.
dragDrop(dragFrom, dragTo, modifiers) ==
    /\ DragIdle
    /\ keysDown' = IF modifiers # "" THEN modifiers ELSE keysDown
    /\ dragPc' = [pc |-> "drag", dragFrom |-> dragFrom, dragTo |-> dragTo,
                  modifiers |-> modifiers, button |-> FALSE]
    /\ UNCHANGED <<dragFrame, lastMatch, buttonDown, out>>

\* Region.drag(dragFrom), called at line 749: the target is resolved, the
\* mouse moves there and the button goes down.
drag(found, arg, choice) ==
    /\ dragPc.pc = "drag"
    /\ LET r == raiseFindFailed(findFailedHandler, findFailedResponse, arg,
                                choice)
           t == resolveTarget(dragPc.dragFrom, found, r)
       IN  /\ t # "retry"
           /\ IF t = "Location"
              THEN /\ buttonDown' = TRUE
                   /\ dragPc' = [dragPc EXCEPT !.pc = "dropAt",
                                               !.button = TRUE]
                   /\ UNCHANGED out
              ELSE /\ dragRaises(t)
                   /\ UNCHANGED buttonDown
    /\ lastMatch' = IF dragPc.dragFrom = "Pattern" /\ found
                    THEN "Match" ELSE lastMatch
    /\ UNCHANGED <<dragFrame, keysDown>>

\* Region.dropAt(dragTo), called at line 751: the target is resolved, the
\* mouse moves there and the button goes up.
dropAt(found, arg, choice) ==
    /\ dragPc.pc = "dropAt"
    /\ LET r == raiseFindFailed(findFailedHandler, findFailedResponse, arg,
                                choice)
           t == resolveTarget(dragPc.dragTo, found, r)
       IN  /\ t # "retry"
           /\ IF t = "Location"
              THEN /\ buttonDown' = FALSE
                   /\ dragPc' = [dragPc EXCEPT !.pc = "keyUp"]
                   /\ UNCHANGED out
              ELSE /\ dragRaises(t)
                   /\ UNCHANGED buttonDown
    /\ lastMatch' = IF dragPc.dragTo = "Pattern" /\ found
                    THEN "Match" ELSE lastMatch
    /\ UNCHANGED <<dragFrame, keysDown>>

\* Lines 753-754 of dragDrop: the modifiers are released and it returns.
dragDrop_keyUp ==
    /\ dragPc.pc = "keyUp"
    /\ keysDown' = IF dragPc.modifiers # "" THEN "" ELSE keysDown
    /\ dragPc' = [dragPc EXCEPT !.pc = "idle"]
    /\ out' = [op |-> "dragDrop", kind |-> "None", res |-> None,
               derived |-> None,
               args |-> <<dragPc.dragFrom, dragPc.dragTo, dragPc.modifiers>>]
    /\ UNCHANGED <<dragFrame, lastMatch, buttonDown>>

\* Region.mouseUp and Region.keyUp: the script lets go of everything.
releaseAll ==
    /\ DragIdle
    /\ keysDown # "" \/ buttonDown
    /\ keysDown' = ""
    /\ buttonDown' = FALSE
    /\ UNCHANGED <<dragFrame, lastMatch, dragPc, out>>

DragNext ==
    \/ \E r \in Responses : DragIdle /\ setFindFailedResponse(r)
    \/ \E f \in DragTargets, t \in DragTargets, m \in Modifiers :
           dragDrop(f, t, m)
    \/ \E found \in BOOLEAN, arg \in Responses, choice \in Buttons :
           drag(found, arg, choice)
    \/ \E found \in BOOLEAN, arg \in Responses, choice \in Buttons :
           dropAt(found, arg, choice)
    \/ dragDrop_keyUp
    \/ releaseAll
    \/ Discard

SpecDrag == ConfigInit /\ [][DragNext]_vars

\* ============================================================ properties
\* The operation o has ended.
Done(o) == op = o /\ pc = "done"

\* The operation ended with an exception.
Raised ==
    result \in {"FindFailed", "ValueError", "NameError", "TypeError",
                "AttributeError"}

\* C1: with no handler and response ABORT, a find whose exists search was
\* exhausted (no capture matched) fails with FindFailed after that one
\* search; neither a handler nor the prompt is involved.
C1_AbortRaisesFindFailed ==
    (Done("find") /\ findFailedHandler = NoHandler
        /\ findFailedResponse = "ABORT" /\ searches >= 1 /\ match = "None")
    => (result = "FindFailed" /\ searches = 1 /\ exhausted = 1
        /\ handlerCalls = 0 /\ promptCalls = 0)

C1_Witness ==
    /\ Done("find") /\ findFailedHandler = NoHandler
    /\ findFailedResponse = "ABORT"
    /\ searches = 1 /\ match = "None" /\ attempts >= 2
    /\ result = "FindFailed"

\* C2: with no handler and response SKIP, a find whose exists search was
\* exhausted returns None without raising, after exactly one search.
C2_SkipReturnsNone ==
    (Done("find") /\ findFailedHandler = NoHandler
        /\ findFailedResponse = "SKIP" /\ searches >= 1 /\ match = "None")
    => (result = "None" /\ searches = 1 /\ exhausted = 1
        /\ handlerCalls = 0 /\ promptCalls = 0)

C2_Witness ==
    /\ Done("find") /\ findFailedHandler = NoHandler
    /\ findFailedResponse = "SKIP"
    /\ searches = 1 /\ match = "None" /\ attempts >= 2
    /\ result = "None"

\* The find of C3: no handler, response RETRY.
RetryFind ==
    op = "find" /\ findFailedHandler = NoHandler /\ findFailedResponse = "RETRY"

\* C3: with no handler and response RETRY, find never returns None and never
\* raises FindFailed: when it returns, it returns the Match of a successful
\* search; and every exhausted search is followed by _raiseFindFailed giving
\* the loop another pass, which begins a new exists search with a polling
\* loop of its own.
C3_RetrySearchesAgain ==
    /\ []((RetryFind /\ pc = "done")
            => /\ result \notin {"None", "FindFailed"}
               /\ ~Raised => (result = "Match" /\ match = "Match"
                              /\ lastMatch = "Match"))
    /\ [][(RetryFind /\ pc = "find_failed") => pc' = "exists"]_vars
    /\ [][(RetryFind /\ pc = "exists" /\ exhausted >= 1)
            => (pc' = "exists_loop" /\ searches' = searches + 1
                /\ attempts' = 0
                /\ timeout' = now + autoWaitTimeout * TicksPerSecond)]_vars

C3_Witness ==
    /\ RetryFind /\ pc = "done"
    /\ exhausted >= 1 /\ searches = exhausted + 1
    /\ result = "Match"

\* C4: with no handler and response PROMPT, an exhausted find asks the
\* prompt and resolves as the answer says: it ends with FindFailed (abort),
\* with None (ignore) or, after a retry, with a Match.
C4_PromptResolves ==
    (Done("find") /\ findFailedHandler = NoHandler
        /\ findFailedResponse = "PROMPT" /\ exhausted >= 1)
    => (promptCalls >= 1 /\ result \in {"FindFailed", "None", "Match"})

\* C5: an exhausted find calls the registered handler once per exhausted
\* search, and the response the handler gave setResponse decides: ABORT
\* ends the find with FindFailed, SKIP with None, and no find ends on RETRY.
C5_HandlerResponseDecides ==
    (Done("find") /\ findFailedHandler = "sets" /\ exhausted >= 1
        /\ match = "None")
    => /\ handlerCalls = exhausted
       /\ handlerSet = "ABORT" => result = "FindFailed"
       /\ handlerSet = "SKIP" => result = "None"
       /\ handlerSet # "RETRY"

\* C6: a wait whose pattern stayed absent until its timeout consults the
\* FindFailed policy: with response SKIP it returns None, with ABORT it
\* fails with FindFailed, and with RETRY it does not end there.
C6_WaitConsultsPolicy ==
    (Done("wait") /\ findFailedHandler = NoHandler /\ searches >= 1
        /\ match = "None")
    => /\ findFailedResponse = "SKIP" => result = "None"
       /\ findFailedResponse = "ABORT" => result = "FindFailed"
       /\ findFailedResponse # "RETRY"

\* The rects r and s share a pixel.
Intersects(r, s) ==
    /\ r.x < s.x + s.w
    /\ s.x < r.x + r.w
    /\ r.y < s.y + s.h
    /\ s.y < r.y + r.h

\* C7: an exists on a region that intersects a monitor, in which no capture
\* matched, returns None: it raises nothing and involves neither the
\* handler nor the prompt, whatever the response is.
C7_ExistsReturnsNone ==
    (Done("exists") /\ match = "None"
        /\ \E i \in 1 .. Len(screens) : Intersects(rect, screens[i]))
    => (result = "None" /\ handlerCalls = 0 /\ promptCalls = 0)

\* C8: an exists(pattern, 0) that reaches its polling loop makes exactly
\* one capture-and-match attempt, whatever the scan rate and whether or not
\* the attempt matches.
C8_ExistsZeroOneAttempt ==
    (op = "exists" /\ seconds = Some(0))
    => /\ attempts <= 1
       /\ pc = "exists_loop" => attempts = 0
       /\ (pc \in {"exists_end", "done"} /\ result # "ValueError")
            => attempts = 1

C8_Witness ==
    /\ Done("exists") /\ seconds = Some(0)
    /\ defaultScanRate = Some(1) /\ autoWaitTimeout > 0
    /\ attempts = 1 /\ result = "None"

\* C9: a polling operation (exists, findAll, waitVanish) that passed its
\* clip has made at least one capture-and-match attempt when it ends, also
\* when its timeout is 0.
C9_AttemptBeforeDeadline ==
    (pc = "done" /\ op \in {"exists", "findAll", "waitVanish"}
        /\ result # "ValueError")
    => attempts >= 1

\* C10: waitVanish returns True when its last capture no longer matched and
\* False when the pattern still matched at the timeout; it never involves
\* the FindFailed handler or prompt.
C10_WaitVanishResult ==
    (Done("waitVanish") /\ attempts >= 1)
    => /\ match = "None" => result = "True"
       /\ match = "Match" => result = "False"
       /\ handlerCalls = 0 /\ promptCalls = 0

\* C11: a findAll on a visible region whose captures all come back without a
\* match ends, once the window is over, with the empty sequence: no error,
\* no FindFailed handler or prompt, and _lastMatches as it was before.
C11_FindAllEmpty ==
    [][(/\ op = "findAll"
        /\ op' = "findAll"
        /\ matches' = 0)
       => /\ lastMatches' = lastMatches
          /\ (pc' = "done" /\ clipRegionToScreen(rect, screens) # None)
             => /\ result' = "Empty"
                /\ handlerCalls' = 0
                /\ promptCalls' = 0
                /\ now' >= timeout']_vars

\* A findAll that polled the whole window in vain, after one that matched.
C11_Witness ==
    /\ Done("findAll")
    /\ result = "Empty"
    /\ attempts >= 2
    /\ now >= timeout
    /\ lastMatches = 1

\* C12: a region that lies outside every monitor has no clipped region, and
\* exists, find, findAll, wait, waitVanish and isChanged on it all fail with
\* the out-of-bounds error (the ValueError of lines 417 and 521) before any
\* capture is taken.
C12_OutsideFailsOutOfBounds ==
    (/\ pc = "done"
     /\ \A i \in DOMAIN screens : Outside(rect, screens[i]))
    => /\ clipRegionToScreen(rect, screens) = None
       /\ result = "ValueError"
       /\ attempts = 0

\* C13: with several monitors, a region that lies within one of them, the
\* first or a later one, gets itself back from clipRegionToScreen, not None.
C13_InsideAnyMonitorKept ==
    (/\ out.op = "clipRegionToScreen"
     /\ Len(screens) > 1
     /\ rect.w > 0
     /\ rect.h > 0
     /\ \E k \in DOMAIN screens : Inside(rect, screens[k]))
    => out.res = Some(rect)

\* The part of r that lies on the monitor s.
Intersection(r, s) ==
    Rect(Max(r.x, s.x), Max(r.y, s.y),
         Min(r.x + r.w, s.x + s.w) - Max(r.x, s.x),
         Min(r.y + r.h, s.y + s.h) - Max(r.y, s.y))

\* The region spreads over a monitor border: it overlaps a monitor and no
\* monitor holds all of it.
Straddles(r, scr) ==
    /\ r.w > 0
    /\ r.h > 0
    /\ \E k \in DOMAIN scr : Intersects(r, scr[k])
    /\ \A k \in DOMAIN scr : ~Inside(r, scr[k])

\* The first monitor of the list that r overlaps.
LowestOverlapped(r, scr) ==
    CHOOSE k \in DOMAIN scr :
        /\ Intersects(r, scr[k])
        /\ \A j \in 1 .. k - 1 : ~Intersects(r, scr[j])

\* C14: for a region that straddles a monitor border clipRegionToScreen
\* returns exactly its intersection with the first monitor it overlaps, a
\* rectangle that lies within that monitor.
C14_StraddleClippedToIntersection ==
    (out.op = "clipRegionToScreen" /\ Straddles(rect, screens))
    => LET s == screens[LowestOverlapped(rect, screens)]
       IN  /\ out.res = Some(Intersection(rect, s))
           /\ Inside(out.res[1], s)

\* C15: clipping what clipRegionToScreen returned gives the same rectangle
\* again.
C15_ClipIdempotent ==
    (out.op = "clipRegionToScreen" /\ out.res # None)
    => clipRegionToScreen(out.res[1], screens) = out.res

\* A region that the clip really cut down, clipped once more.
C15_Witness ==
    /\ out.op = "clipRegionToScreen"
    /\ out.res # None
    /\ out.res[1] # rect
    /\ clipRegionToScreen(out.res[1], screens) = out.res

\* The operations that derive a new region from this one.
Directional == {"above", "below", "left", "right", "grow", "nearby", "offset"}

\* C16: a directional constructor whose derived rectangle lies on no
\* monitor fails with the out-of-bounds error (the ValueError of line 260);
\* it returns neither None nor a region.
C16_DerivedOutsideFails ==
    (/\ out.op \in Directional
     /\ out.derived # None
     /\ out.derived[1].w > 0
     /\ out.derived[1].h > 0
     /\ \A i \in DOMAIN screens : Outside(out.derived[1], screens[i]))
    => out.kind = "ValueError"

\* C17: the region, however it was built or reshaped, and every region a
\* directional constructor or the clip returns, has a width and a height
\* that are not negative.
C17_SizesNotNegative ==
    /\ rect.w >= 0
    /\ rect.h >= 0
    /\ out.res # None => (out.res[1].w >= 0 /\ out.res[1].h >= 0)

Area(r) == r.w * r.h

\* The rows and columns of the raster ras, counted from 0.
CellIndices(ras) == (0 .. ras[1] - 1) \X (0 .. ras[2] - 1)

\* The areas of the cells with the indices in S, added up.
RECURSIVE SumAreas(_, _, _)
SumAreas(s, ras, S) ==
    IF S = {} THEN 0
    ELSE LET p == CHOOSE q \in S : TRUE
         IN  Area(getCell(s, ras, p[1], p[2])) + SumAreas(s, ras, S \ {p})

\* C18: with a raster of rows x columns on a region whose width is a
\* multiple of columns and whose height is a multiple of rows, square or
\* not, the cells getCell(r, c) with 0 <= r < rows and 0 <= c < columns do
\* not overlap each other and together cover exactly the region.
C18_CellsTileRegion ==
    (/\ raster[1] > 0
     /\ raster[2] > 0
     /\ rect.w % raster[2] = 0
     /\ rect.h % raster[1] = 0)
    => LET s == Scaled(rect)
           I == CellIndices(raster)
       IN  /\ \A p \in I, q \in I :
                  p # q => ~Intersects(getCell(s, raster, p[1], p[2]),
                                       getCell(s, raster, q[1], q[2]))
           /\ \A p \in I : Inside(getCell(s, raster, p[1], p[2]), s)
           /\ SumAreas(s, raster, I) = Area(s)

\* The index the rule of C19 gives for the index i and the count n.
ClampedIndex(i, n) ==
    IF i < 0
    THEN IF n - i < 0 THEN n - 1 ELSE n - i
    ELSE IF i >= n THEN 0 ELSE i

\* C19: with a raster set, getRow, getCol and getCell take the first row or
\* column for every index that is not below the count, and for a negative
\* index they take count - index, or the last row or column should that
\* still be negative.
C19_IndexClamped ==
    (raster[1] > 0 /\ raster[2] > 0 /\ out.res # None)
    => LET s == Scaled(rect)
           r == out.res[1]
       IN  /\ out.op = "getRow" =>
                  LET n == usedCount(out.args[2], raster[1])
                  IN  r = Rect(s.x,
                               s.y + ClampedIndex(out.args[1], n) * (s.h \div n),
                               s.w, s.h \div n)
           /\ out.op = "getCol" =>
                  LET n == usedCount(out.args[2], raster[2])
                  IN  r = Rect(s.x + ClampedIndex(out.args[1], n) * (s.w \div n),
                               s.y, s.w \div n, s.h)
           /\ out.op = "getCell" =>
                  /\ r.y = s.y + ClampedIndex(out.args[1], raster[1]) * r.h
                  /\ r.x = s.x + ClampedIndex(out.args[2], raster[2]) * r.w

\* C20: get(n) for 200 <= n <= 999 with the digits N, r, c sets an N x N
\* raster and returns the cell (r, c) when r < N and c < N, the whole row r
\* when c = N, the whole column c when r = N, and the region itself when
\* r = c = N.
C20_GetByDigits ==
    (out.op = "get" /\ out.args[1] >= 200 /\ out.args[1] <= 999)
    => LET d == Digits(out.args[1])
           N == d[1]
           r == d[2]
           c == d[3]
           s == Scaled(rect)
           cw == s.w \div N
           rh == s.h \div N
       IN  /\ raster = <<N, N>>
           /\ (r < N /\ c < N) =>
                  out.res = Some(Rect(s.x + c * cw, s.y + r * rh, cw, rh))
           /\ (r < N /\ c = N) =>
                  out.res = Some(Rect(s.x, s.y + r * rh, s.w, rh))
           /\ (r = N /\ c < N) =>
                  out.res = Some(Rect(s.x + c * cw, s.y, cw, s.h))
           /\ (r = N /\ c = N) => out.res = Some(s)

\* C21: the partitioning constants select the part their comments name:
\* EAST the right half, WEST the left half, NORTH the upper half, SOUTH the
\* lower half, EAST_MID and WEST_MID the middle third of the right and of
\* the left third.
C21_ConstantsSelectNamedPart ==
    (out.op = "get" /\ out.res # None)
    => LET s == Scaled(rect)
           r == out.res[1]
           part == out.args[1]
       IN  /\ part = EAST =>
                  r = Rect(s.x + s.w \div 2, s.y, s.w \div 2, s.h)
           /\ part = WEST => r = Rect(s.x, s.y, s.w \div 2, s.h)
           /\ part = NORTH => r = Rect(s.x, s.y, s.w, s.h \div 2)
           /\ part = SOUTH =>
                  r = Rect(s.x, s.y + s.h \div 2, s.w, s.h \div 2)
           /\ part = EAST_MID =>
                  r = Rect(s.x + 2 * (s.w \div 3), s.y + s.h \div 3,
                           s.w \div 3, s.h \div 3)
           /\ part = WEST_MID =>
                  r = Rect(s.x, s.y + s.h \div 3, s.w \div 3, s.h \div 3)

\* C22: similar, exact and targetOffset leave the pattern they are called
\* on as it was and return a Pattern that differs from it in the one field
\* only: similar and exact keep the path and the target offset,
\* targetOffset keeps the path and the similarity; also for a pattern that
\* itself came from such a call.
C22_DerivedPatternKeepsOtherFields ==
    out.kind = "Pattern"
    => LET p == out.derived[1]
           q == out.res[1]
       IN  /\ pattern = p
           /\ q.path = p.path
           /\ out.op = "similar" =>
                  (q.similarity = out.args[1] /\ q.offset = p.offset)
           /\ out.op = "exact" =>
                  (q.similarity = SimSteps /\ q.offset = p.offset)
           /\ out.op = "targetOffset" =>
                  (q.offset = out.args /\ q.similarity = p.similarity)

\* C23: for a region that lies within one monitor, the Match a successful
\* exists returns has the rectangle (region.x + px, region.y + py, needle
\* width, needle height) for the place (px, py) the matcher found in the
\* haystack, has the matcher's score, which is not below the pattern's
\* similarity, and has as its target the center of that rectangle moved by
\* the pattern's target offset.
C23_MatchRectScoreTarget ==
    (out.kind = "Match" /\ \E k \in DOMAIN screens : Inside(rect, screens[k]))
    => LET m == out.res[1]
           px == out.args[1][1]
           py == out.args[1][2]
           needle == out.args[3]
       IN  /\ m.rect = Rect(rect.x + px, rect.y + py, needle[1], needle[2])
           /\ m.score = out.args[2]
           /\ m.score >= pattern.similarity
           /\ getTarget(m) =
                  <<2 * (rect.x + px) + needle[1] + 2 * pattern.offset[1],
                    2 * (rect.y + py) + needle[2] + 2 * pattern.offset[2]>>

\* A match away from the region's corner, in a region away from the
\* screen's corner, for a pattern with a target offset.
C23_Witness ==
    /\ out.kind = "Match"
    /\ \E k \in DOMAIN screens : Inside(rect, screens[k])
    /\ rect.x > 0
    /\ out.args[1][1] > 0
    /\ pattern.offset[1] > 0
    /\ out.res[1].rect.x = rect.x + out.args[1][1]

\* A step of check_events that looks at the watcher at obsI.
ChecksWatcher ==
    /\ obsPc = "check"
    /\ obsI \in DOMAIN events
    /\ obsI' = obsI + 1

\* C24: an APPEAR watcher without handler fires at most once per
\* activation. When check_events comes to such a watcher while it is active
\* and the pattern is on the screen, exactly one event is put at the end of
\* caught_events and the watcher is deactivated, not removed; when it comes
\* to it while it is inactive, no event is added and the watcher is left as
\* it is.
C24_AppearFiresOncePerActivation ==
    [][(/\ ChecksWatcher
        /\ events[obsI].event_type = "APPEAR"
        /\ ~callable(events[obsI].handler))
       => /\ Len(events') = Len(events)
          /\ \A k \in DOMAIN events : k # obsI => events'[k] = events[k]
          /\ (events[obsI].active /\ onScreen)
             => /\ Len(caught_events') = Len(caught_events) + 1
                /\ SubSeq(caught_events', 1, Len(caught_events))
                       = caught_events
                /\ caught_events'[Len(caught_events')].watcher = obsI
                /\ ~events'[obsI].active
                /\ events'[obsI].count = events[obsI].count + 1
          /\ ~events[obsI].active
             => /\ caught_events' = caught_events
                /\ events' = events]_vars

\* The second cycle of an observe has passed an APPEAR watcher without
\* handler whose pattern is on the screen: one event of it is queued and it
\* is inactive.
C24_Witness ==
    /\ obsPc = "check"
    /\ checks = 2
    /\ obsI = 2
    /\ onScreen
    /\ events[1].event_type = "APPEAR"
    /\ ~callable(events[1].handler)
    /\ ~events[1].active
    /\ events[1].count = 1
    /\ Len(caught_events) = 1
    /\ caught_events[1].watcher = 1

\* A step of check_events in which the watcher at obsI fires.
Fires ==
    /\ ChecksWatcher
    /\ events[obsI].active
    /\ events'[obsI].count # events[obsI].count

\* C25: when a watcher of any kind fires in check_events, the event is put
\* at the end of caught_events only if the watcher has no handler; with a
\* handler, which is then called, caught_events stays as it is. In both
\* cases the count goes up by one and the watcher is deactivated.
C25_HandledEventNotQueued ==
    [][Fires
       => /\ events'[obsI].count = events[obsI].count + 1
          /\ ~events'[obsI].active
          /\ IF callable(events[obsI].handler)
             THEN caught_events' = caught_events
             ELSE /\ Len(caught_events') = Len(caught_events) + 1
                  /\ caught_events'[Len(caught_events')].watcher = obsI]_vars

\* C26: onChange with a number of pixels and a handler (or none) registers
\* a CHANGE watcher that keeps that number as its threshold, and returns
\* the watcher's name.
C26_OnChangeRegisters ==
    (out.op = "onChange" /\ out.args[1])
    => /\ out.kind = "name"
       /\ out.res # None
       /\ out.res[1] \in DOMAIN events
       /\ events[out.res[1]].event_type = "CHANGE"
       /\ events[out.res[1]].min_changed = out.args[2]

\* A step in which the call of the observer API named name returns or
\* raises.
Calls(name) == out = NoOut /\ out'.op = name

\* C27: getEvents returns all queued events in the order they were
\* caught, leaves caught_events empty and reactivates the watcher of every
\* event it returns; no queued event is lost.
C27_GetEventsDrainsAndReactivates ==
    [][Calls("getEvents")
       => /\ out'.kind = "list"
          /\ out'.res = Some(caught_events)
          /\ caught_events' = << >>
          /\ \A k \in DOMAIN caught_events :
                 events'[caught_events[k].watcher].active]_vars

\* C28: setInactive(name) on a registered watcher deactivates it, so that
\* every later check_events skips it, and setActive(name) activates it, so
\* that the next check_events can fire it; both return normally and leave
\* the other watchers and caught_events unchanged.
C28_SetInactiveSetActive ==
    [][/\ (Calls("setInactive") /\ out'.args[1] \in DOMAIN events)
          => /\ out'.kind = "None"
             /\ events' = [events EXCEPT ![out'.args[1]].active = FALSE]
             /\ caught_events' = caught_events
       /\ (Calls("setActive") /\ out'.args[1] \in DOMAIN events)
          => /\ out'.kind = "None"
             /\ events' = [events EXCEPT ![out'.args[1]].active = TRUE]
             /\ caught_events' = caught_events]_vars

\* C29: at most one observer loop runs per Observer. While a loop started
\* by observe runs, isObserving() is true; an observe called from a watcher
\* handler of that loop returns False; and observeInBackground returns
\* False when a process it started before is still observing.
C29_OneLoopPerObserver ==
    /\ obsPc # "idle" => isRunning
    /\ reentered # "True"
    /\ (out.op = "observeInBackground" /\ out.args[1]) => out.kind = "False"

\* What a step of an observe loop in which a handler has called
\* stopObserver may do.
AfterStop ==
    /\ (obsPc = "check" /\ obsPc' # "check")
       => (obsPc' = "test" /\ obsI > Len(events))
    /\ (ChecksWatcher /\ isStopped /\ events[obsI].active
           /\ events[obsI].event_type = "APPEAR" /\ onScreen)
       => events'[obsI].count = events[obsI].count + 1
    /\ (stoppedIn # 0 /\ stoppedIn' # 0) => checks' = checks
    /\ (obsPc = "test" /\ isStopped /\ obsPc' # "test")
       => (obsPc' = "idle" /\ out'.op = "observe" /\ out'.kind = "True")

\* C30: a stop request is cooperative. When a watcher handler calls
\* stopObserver while the observe loop runs, check_events still goes through
\* the watchers that remain in its cycle, and they fire as ever; the loop
\* starts no further check_events; the while test that follows the sleep
\* ends the loop, and observe returns True.
C30_StopIsCooperative ==
    /\ [][AfterStop]_vars
    /\ (stoppedIn # 0) ~> (out.op = "observe" /\ out.kind = "True")

\* An observe without timeout has returned after its first cycle, in which
\* the handler of the first watcher called stopObserver and the second
\* watcher fired after it.
C30_Witness ==
    /\ out.op = "observe"
    /\ out.kind = "True"
    /\ out.args = <<None>>
    /\ stoppedIn = 1
    /\ checks = 1
    /\ Len(events) = 2
    /\ callable(events[1].handler)
    /\ events[1].count = 1
    /\ ~callable(events[2].handler)
    /\ events[2].event_type = "APPEAR"
    /\ events[2].count = 1

\* A step of the process started by observeInBackground (and not the call
\* that starts it, which returns to the caller).
WorkerStep == worker' # worker /\ out' = out

\* C31: the process started by observeInBackground works on a copy. No
\* step of it, a watcher firing there included, changes the caller's
\* Observer: caught_events and the watchers with their active flags and
\* counts stay as they are.
C31_WorkerLeavesCallerAlone ==
    [][WorkerStep => UNCHANGED <<events, caught_events, isStopped>>]_vars

\* A watcher has fired in the process and is queued and inactive there,
\* while the caller's copy of it is active with count 0 and the caller's
\* queue is empty.
C31_Witness ==
    /\ worker.pc # "none"
    /\ Len(worker.events) > 0
    /\ worker.events[1].count = 1
    /\ ~worker.events[1].active
    /\ Len(worker.caught_events) = 1
    /\ events[1].count = 0
    /\ events[1].active
    /\ caught_events = << >>

\* C32: once stopObserver has been called on the caller's region, a
\* background loop that observeInBackground() started without timeout
\* comes to its end.
C32_StopEndsBackgroundLoop ==
    (isStopped /\ worker.pc \in {"test", "check"}
       /\ worker.obsTimeout = None)
    ~> (worker.pc = "ended")

\* C33: the accessors of an event are guarded by its kind. getImage raises
\* TypeError on CHANGE and GENERIC events, getMatch on every kind but
\* APPEAR and VANISH, getChanges on every kind but CHANGE; none of them
\* returns a value there.
C33_AccessorsGuardedByKind ==
    /\ (out.op = "getImage" /\ observeEvent.type \in {"CHANGE", "GENERIC"})
       => out.kind = "TypeError"
    /\ (out.op = "getMatch" /\ observeEvent.type \notin {"APPEAR", "VANISH"})
       => out.kind = "TypeError"
    /\ (out.op = "getChanges" /\ observeEvent.type # "CHANGE")
       => out.kind = "TypeError"

\* getMatch was called on a CHANGE event that has a match, and raised.
C33_Witness ==
    /\ out.op = "getMatch"
    /\ observeEvent.type = "CHANGE"
    /\ observeEvent.match # None
    /\ out.kind = "TypeError"

\* C34: the throw-exceptions flag and the FindFailed response move as a
\* pair: after any sequence of setThrowException and setFindFailedResponse
\* calls on a new Region, getThrowException() is true exactly when the
\* configured response is ABORT.
C34_FlagAndResponseArePair ==
    getThrowException <=> (getFindFailedResponse = "ABORT")

\* A capture of the polling loop of exists that does not hold the pattern.
Miss == pc = "exists_loop" /\ attempts' = attempts + 1 /\ match' = "None"

\* find has begun its last search the bound MaxSearches allows.
LastSearch == pc = "exists" /\ searches = MaxSearches

C36_LastMatchOnlyOnSuccess ==
    [][(out = NoOut /\ out'.op = "exists")
       => /\ out'.kind = "Match" => lastMatch' = out'.res[1]
          /\ out'.kind = "None"
             => (lastMatch' = lastMatch /\ lastMatchTime' = lastMatchTime)]_vars

\* An exists has returned None after an earlier one had found a match that
\* took a tick.
C36_Witness ==
    /\ out.op = "exists"
    /\ out.kind = "None"
    /\ lastMatchTime = 1

\* The rectangle has a pixel on the monitor and a pixel off it.
PartlyOn(r, s) ==
    /\ r.x < s.x + s.w
    /\ s.x < r.x + r.w
    /\ r.y < s.y + s.h
    /\ s.y < r.y + r.h
    /\ ~Inside(r, s)

\* C38: when the region is only partly on a monitor, the Match of exists
\* lies at the origin of the clipped rectangle, whose bitmap was searched,
\* plus the place the matcher found in that bitmap.
C38_MatchAtClippedOrigin ==
    (out.op = "exists" /\ out.kind = "Match" /\ PartlyOn(rect, screens[1]))
    => LET r == clipRegionToScreen(rect, screens)[1]
           m == out.res[1]
       IN  /\ m.rect.x = r.x + out.args[1][1]
           /\ m.rect.y = r.y + out.args[1][2]

\* The step in which the loop of observe ends and observe returns.
ObserveReturns == obsPc = "test" /\ obsPc' = "idle"

\* C37: observe with a finite number of seconds comes to return True,
\* whatever the watchers do and also when nobody asks for a stop, and
\* without a stop it returns only once the seconds have passed; observe
\* without seconds returns only after a stop was asked for, never otherwise.
C37_ObserveEndsWhenDurationElapsed ==
    /\ [][ObserveReturns
          => /\ out'.op = "observe"
             /\ out'.kind = "True"
             /\ ~isStopped
                => (obsTimeout # None /\ obsNow >= obsTimeout[1])]_vars
    /\ (obsPc # "idle" /\ obsTimeout # None)
           ~> (obsPc = "idle" /\ out.op = "observe" /\ out.kind = "True")

\* An observe of one second has returned True after one cycle, in which its
\* watcher fired, and nobody has asked for a stop.
C37_Witness ==
    /\ out.op = "observe"
    /\ out.kind = "True"
    /\ out.args = <<Some(1)>>
    /\ ~isStopped
    /\ checks = 1
    /\ Len(events) = 1
    /\ events[1].count = 1

\* C39: the stop flag of the Observer is never cleared. Once it is set,
\* an observe that begins afterwards returns True and never enters
\* check_events, so no watcher fires in it.
C39_StopFlagIsForGood ==
    /\ [][isStopped => isStopped']_vars
    /\ []((isStopped /\ stoppedIn = 0 /\ obsPc # "idle")
             => (obsPc = "test" /\ checks = 0))
    /\ [][(isStopped /\ Calls("observe"))
          => /\ out'.kind = "True"
             /\ stoppedIn = 0 => (checks' = 0 /\ events' = events)]_vars
    /\ (isStopped /\ obsPc # "idle")
           ~> (obsPc = "idle" /\ out.op = "observe" /\ out.kind = "True")

\* After stopObserver an observe has returned True without a cycle, although
\* its APPEAR watcher is active and the pattern is on the screen.
C39_Witness ==
    /\ out.op = "observe"
    /\ out.kind = "True"
    /\ isStopped
    /\ stoppedIn = 0
    /\ checks = 0
    /\ onScreen
    /\ Len(events) = 1
    /\ events[1].event_type = "APPEAR"
    /\ events[1].active
    /\ events[1].count = 0

\* C40: when dragDrop has ended, by returning or by an exception raised
\* while dragFrom or dragTo was resolved, the modifier keys it pressed are
\* up again and the mouse button it pressed is not down.
C40_DragDropReleasesAll ==
    (out.op = "dragDrop")
    => /\ dragPc.modifiers # "" => keysDown = ""
       /\ dragPc.button => ~buttonDown

====================================================================
